---- MODULE Spec2Model ----
(***************************************************************************)
(* Authentication core of dyne: the stateless backends of                  *)
(* dyne/ext/auth/__init__.py (Backend, TokenAuth, BasicAuth, DigestAuth)   *)
(* and the session LoginManager of dyne/ext/auth/session/__init__.py.      *)
(*                                                                         *)
(* Python values are tagged records: None, Str(s), PyInt(n), List(l).  A   *)
(* call that raises is an outcome string naming the exception class.       *)
(***************************************************************************)
EXTENDS Integers, Sequences, FiniteSets, TLC

VARIABLES
    az,       \* an authorize / _authorize call: inputs and result
    backend,  \* the stateless backend: scheme, realm, callbacks, handler
    lm,       \* the LoginManager: login_url, callbacks, hooks
    session,  \* req.session, kept by the session middleware across requests
    jar,      \* the remember-me cookie the client holds
    req,      \* the request: cookie, state.user, url
    resp,     \* the response: status_code, Location, text, cookie
    last,     \* the last call on the LoginManager: arguments and outcome
    prev,     \* the request before: its last call, and what the client sent on
    n_req,    \* requests started
    n_ops     \* calls made on the LoginManager

sessVars == <<backend, lm, session, jar, req, resp, last, prev, n_req, n_ops>>

vars == <<az, backend, lm, session, jar, req, resp, last, prev, n_req, n_ops>>

\* ------------------------------------------------------------------------
\* Python values
\* ------------------------------------------------------------------------
None == [t |-> "None"]

Str(s) == [t |-> "str", s |-> s]

PyInt(n) == [t |-> "int", n |-> n]

List(l) == [t |-> "list", l |-> l]

\* A callback slot nothing was registered in (self.get_user_roles_callback
\* = None, self._role_loader = None).
Unset == [t |-> "unset"]

\* How a call ends: it raises the exception e, or returns v.
Raise(e) == [raised |-> e, value |-> None]

Return(v) == [raised |-> "no", value |-> v]

Range(f) == {f[i] : i \in DOMAIN f}

SeqsUpTo(S, n) == UNION {[1..k -> S] : k \in 0..n}

\* ------------------------------------------------------------------------
\* Bounds of the role inputs
\* ------------------------------------------------------------------------
\* Entries of a role specification list.
MaxRoleList == 2

\* Roles in a list returned by the get_user_roles callback.
MaxProvided == 2

Roles == {"admin", "editor", "user"}

\* The nested AND-groups: every set of roles, listed once.
RoleGroups ==
    {<<>>, <<"admin">>, <<"editor">>, <<"user">>, <<"admin", "editor">>,
     <<"admin", "user">>, <<"editor", "user">>, <<"admin", "editor", "user">>}

\* An entry of a role list: a role, or a nested list of roles.
RoleEntries == {Str(r) : r \in Roles} \cup {List(g) : g \in RoleGroups}

\* role=None, role="admin", role=["admin", ["editor", "user"]], ...
RoleSpecs == {None} \cup {Str(r) : r \in Roles} \cup {List(l) : l \in SeqsUpTo(RoleEntries, MaxRoleList)}

\* What the get_user_roles callback yields: None, a role, a list of roles,
\* a value of another type (an int), or nothing because none is registered.
ProvidedRoles == {None, PyInt(7), Unset} \cup {Str(r) : r \in Roles} \cup {List(l) : l \in SeqsUpTo(Roles, MaxProvided)}

\* ------------------------------------------------------------------------
\* Backend.authorize
\* ------------------------------------------------------------------------
\* Lines 66-71: None becomes the dict literal {}, a list or tuple becomes
\* set(list), anything else the singleton set.
user_roles_of(provided) ==
    IF provided.t = "None" THEN [k |-> "dict", e |-> {}]
    ELSE IF provided.t = "list" THEN [k |-> "set", e |-> {Str(r) : r \in Range(provided.l)}]
    ELSE [k |-> "set", e |-> {provided}]

\* Lines 72-78, from entry i on.  set & dict raises TypeError; falling off
\* the loop returns None.
RECURSIVE authorize_loop(_, _, _)
authorize_loop(roles, i, user_roles) ==
    IF i > Len(roles) THEN "None"
    ELSE IF roles[i].t = "list"
         THEN IF user_roles.k = "dict" THEN "TypeError"
              ELSE IF {Str(r) : r \in Range(roles[i].l)} \cap user_roles.e
                        = {Str(r) : r \in Range(roles[i].l)}
                   THEN "True"
                   ELSE authorize_loop(roles, i + 1, user_roles)
         ELSE IF roles[i] \in user_roles.e THEN "True"
              ELSE authorize_loop(roles, i + 1, user_roles)

\* Backend.authorize(role, user); callback is what get_user_roles_callback
\* yields for the user, or Unset when none is registered.
authorize(role, callback) ==
    IF role.t = "None" THEN "True"
    ELSE IF callback.t = "unset" THEN "ValueError"
    ELSE authorize_loop(IF role.t = "list" THEN role.l ELSE <<role>>, 1,
                        user_roles_of(callback))

\* ------------------------------------------------------------------------
\* LoginManager._authorize
\* ------------------------------------------------------------------------
\* Lines 277-282: OR-groups of AND-sets.
required_groups(required_role) ==
    IF required_role.t /= "list" THEN <<{required_role}>>
    ELSE [i \in DOMAIN required_role.l |->
            IF required_role.l[i].t = "str" THEN {required_role.l[i]}
            ELSE {Str(r) : r \in Range(required_role.l[i].l)}]

\* The group.issubset test of line 286 (the bare "a group overlaps" test is
\* the slip a reader of the OR/AND docstring would make).
group_overlaps(group, provided_roles) == group \cap provided_roles /= {}

group_allows(group, provided_roles) == group \subseteq provided_roles

\* LoginManager._authorize(required_role, user); provided is what
\* _role_loader yields for the user, or Unset when none is registered.
_authorize(required_role, provided) ==
    IF required_role.t = "None" THEN "True"
    ELSE IF provided.t = "unset" THEN "RuntimeError"
    ELSE IF provided.t \notin {"None", "str", "list"} THEN "TypeError"
    ELSE LET provided_roles ==
                 IF provided.t = "None" THEN {}
                 ELSE IF provided.t = "str" THEN {provided}
                 ELSE {Str(r) : r \in Range(provided.l)}
             groups == required_groups(required_role)
         IN IF \E i \in DOMAIN groups : group_allows(groups[i], provided_roles)
            THEN "True" ELSE "False"

\* ------------------------------------------------------------------------
\* URLs: a URL is Url(u), u the sequence of its characters.
\* ------------------------------------------------------------------------
Url(u) == [t |-> "url", u |-> u]

Letters == {"a", "d", "e", "h", "l", "n", "t", "x"}

\* urllib.parse.scheme_chars
SchemeChars == Letters \cup {"2", "3", "5", "+", "-", "."}

\* The least index of s holding a character of C at or after from; 0 if none.
FirstIndex(s, C, from) ==
    IF \E i \in from..Len(s) : s[i] \in C
    THEN CHOOSE i \in from..Len(s) : s[i] \in C /\ \A j \in from..(i - 1) : s[j] \notin C
    ELSE 0

\* str.startswith
startswith(s, prefix) ==
    Len(s) >= Len(prefix) /\ SubSeq(s, 1, Len(prefix)) = prefix

\* urllib.parse.quote(path): "/" and unreserved characters are kept, every
\* other character becomes its %XX escape.
quote_char(c) ==
    IF c \in SchemeChars \cup {"/", "_", "~"} THEN <<c>>
    ELSE IF c = ":" THEN <<"%", "3", "A">>
    ELSE IF c = "[" THEN <<"%", "5", "B">>
    ELSE IF c = "?" THEN <<"%", "3", "F">>
    ELSE IF c = "=" THEN <<"%", "3", "D">>
    ELSE IF c = "&" THEN <<"%", "2", "6">>
    ELSE <<"%", "2", "5">>

RECURSIVE quote(_)
quote(s) == IF s = <<>> THEN <<>> ELSE quote_char(Head(s)) \o quote(Tail(s))

\* urlsplit: the length of "scheme:" when the text before the first colon
\* is a scheme (starts with a letter, scheme characters only), else 0.
scheme_len(url) ==
    LET i == FirstIndex(url, {":"}, 1)
    IN IF i > 1 /\ url[1] \in Letters /\ \A j \in 1..(i - 1) : url[j] \in SchemeChars
       THEN i ELSE 0

\* urlparse(target).netloc: after the scheme, "//" opens the network
\* location, which runs to the next "/", "?" or "#".  A netloc holding one
\* of "[" and "]" without the other raises ValueError("Invalid IPv6 URL").
urlparse_netloc(url) ==
    LET rest == SubSeq(url, scheme_len(url) + 1, Len(url))
        delim == FirstIndex(rest, {"/", "?", "#"}, 3)
        netloc == IF startswith(rest, <<"/", "/">>)
                  THEN SubSeq(rest, 3, IF delim = 0 THEN Len(rest) ELSE delim - 1)
                  ELSE <<>>
    IN IF ("[" \in Range(netloc)) /= ("]" \in Range(netloc))
       THEN [raised |-> TRUE, netloc |-> netloc]
       ELSE [raised |-> FALSE, netloc |-> netloc]

\* Line 164: "not ref_url.netloc or ref_url.netloc == host".
netloc_ok(netloc, host) == netloc = <<>> \/ netloc = host

\* LoginManager._is_safe_url(target, host): "True", "False" or "ValueError".
_is_safe_url(target, host) ==
    IF target.t = "None" \/ target.u = <<>> THEN "False"
    ELSE IF startswith(target.u, <<"/", "/">>) THEN "False"
    ELSE IF urlparse_netloc(target.u).raised THEN "ValueError"
    ELSE IF netloc_ok(urlparse_netloc(target.u).netloc, host) THEN "True"
    ELSE "False"

\* The target LoginManager._apply_redirect hands to resp.redirect, or a
\* raise: next_url, else the request's next parameter, if safe; else
\* default_url.
redirect_target(next_param, host, default_url, next_url) ==
    LET target_url == IF next_url.t = "url" /\ next_url.u /= <<>> THEN next_url
                      ELSE next_param
    IN IF target_url.t = "None" \/ target_url.u = <<>>
       THEN [raised |-> "no", url |-> default_url]
       ELSE IF _is_safe_url(target_url, host) = "ValueError"
       THEN [raised |-> "ValueError", url |-> None]
       ELSE IF _is_safe_url(target_url, host) = "False"
       THEN [raised |-> "no", url |-> default_url]
       ELSE [raised |-> "no", url |-> target_url]

\* ------------------------------------------------------------------------
\* Users, truthiness, cookies
\* ------------------------------------------------------------------------
\* An attribute, mapping key, cookie or header that is not there.
Absent == [t |-> "absent"]

\* Python truthiness ("if not user", "if role", "if remember_me", ...).
Truthy(v) ==
    CASE v.t \in {"None", "absent", "unset"} -> FALSE
      [] v.t = "str" -> v.s /= ""
      [] v.t = "int" -> v.n /= 0
      [] v.t = "bool" -> v.b
      [] v.t = "list" -> v.l /= <<>>
      [] v.t = "url" -> v.u /= <<>>
      [] v.t = "text" -> v.x /= <<>>
      [] OTHER -> TRUE

\* A user is an object with attributes (shape "obj") or a mapping (shape
\* "dict"); id is the value under user_id_attribute, Absent when it has
\* none; roles is what the get_user_roles callback returns for it.
User(shape, id, roles) == [t |-> "user", shape |-> shape, id |-> id, roles |-> roles]

Alice == User("dict", Str("123"), List(<<"editor", "user">>))

Bob == User("obj", PyInt(7), Str("admin"))

Zed == User("obj", PyInt(0), None)

Zoe == User("dict", PyInt(0), Str("editor"))

Nobody == User("obj", Absent, None)

\* The registered user_loader: the user stored under an id, else None.
user_loader(user_id) ==
    IF user_id = Str("123") THEN Alice
    ELSE IF user_id = Str("7") THEN Bob
    ELSE IF user_id = Str("0") THEN Zoe
    ELSE None

\* str(user_id)
str(v) == IF v.t = "str" THEN v ELSE Str(ToString(v.n))

\* Lines 191-193: getattr(user, attr, None) or (user.get(attr) if
\* isinstance(user, dict) else None).
user_id_of(user) ==
    LET attribute == IF user.shape = "obj" /\ user.id.t /= "absent" THEN user.id ELSE None
        key == IF user.shape = "dict" /\ user.id.t /= "absent" THEN user.id ELSE None
    IN IF Truthy(attribute) THEN attribute ELSE key

\* A remember-me cookie value "uid.timestamp.mac": the user id it carries,
\* and in sig the timestamp ts and the signature mac that came with it.
Cookie(uid, sig) == [t |-> "cookie", uid |-> uid, sig |-> sig]

\* ------------------------------------------------------------------------
\* Response (dyne.models.Response)
\* ------------------------------------------------------------------------
FreshResponse ==
    [status_code |-> 200, location |-> None, text |-> "", cookie |-> Absent,
     www_authenticate |-> Absent]

\* resp.redirect(location, set_text=True, status_code=HTTPStatus.FOUND)
redirect(r, location, status_code) ==
    [r EXCEPT !.status_code = status_code, !.location = location, !.text = "Redirecting"]

\* resp.set_cookie(name, value, path=, max_age=, httponly=, samesite=, secure=)
set_cookie(r, value, max_age, samesite, secure) ==
    [r EXCEPT !.cookie = [t |-> "set-cookie", name |-> "remember_me", value |-> value,
                          path |-> "/", max_age |-> max_age, httponly |-> TRUE,
                          samesite |-> samesite, secure |-> secure]]

\* resp.delete_cookie(name, path=, httponly=, secure=): an empty value that
\* expires at once.
delete_cookie(r, secure) == set_cookie(r, Absent, 0, "", secure)

\* ------------------------------------------------------------------------
\* LoginManager
\* ------------------------------------------------------------------------
\* remember_me_duration = 60 * 60 * 24 * 30
remember_me_duration == 2592000

FOUND == 302

UNAUTHORIZED401 == 401

FORBIDDEN == 403

\* cfg.require("SECRET_KEY")
secret_key == "secret"

remember_me_cookie_name == "remember_me"

\* The time of the requests, in seconds; a cookie signed at 0 has expired.
Now == remember_me_duration + 1

\* The HMAC a TimestampSigner(key, salt=salt) puts on a value and its
\* timestamp: equal for equal inputs only.
get_signature(key, salt, value, ts) == [key |-> key, salt |-> salt, value |-> value, ts |-> ts]

\* TimestampSigner(key, salt=salt).sign(value) at the time ts.
TimestampSigner_sign(key, salt, value, ts) ==
    Cookie(value, [ts |-> ts, mac |-> get_signature(key, salt, value, ts)])

\* max_age=self.remember_me_duration: a signature older than max_age, or
\* stamped in the future, has expired.
never_expired(age, max_age) == FALSE

expired(age, max_age) == age > max_age \/ age < 0

\* TimestampSigner(key, salt=salt).unsign(signed, max_age=max_age) at the
\* time now: the signature is verified first, then the age.
unsign(key, salt, signed, max_age, now) ==
    IF signed.t /= "cookie" THEN Raise("BadSignature")
    ELSE IF signed.sig.mac /= get_signature(key, salt, signed.uid, signed.sig.ts)
    THEN Raise("BadSignature")
    ELSE IF expired(now - signed.sig.ts, max_age) THEN Raise("SignatureExpired")
    ELSE Return(Str(signed.uid))

\* Lines 203-206: signer.sign(user_id.encode("utf-8")).decode("utf-8") (and
\* the same under a key that is not the secret).
sign_with_other_key(user_id) ==
    TimestampSigner_sign("other", remember_me_cookie_name, user_id.s, Now)

sign(user_id) == TimestampSigner_sign(secret_key, remember_me_cookie_name, user_id.s, Now)

\* The exception classes "except BadSignature" catches.
BadSignature == {"BadSignature", "BadTimeSignature", "SignatureExpired"}

\* LoginManager._unsign_cookie(req, name), value being req.cookies.get(name).
_unsign_cookie(value) ==
    IF value.t = "absent" THEN None
    ELSE LET unsigned == unsign(secret_key, remember_me_cookie_name, value,
                                remember_me_duration, Now)
         IN IF unsigned.raised \in BadSignature THEN None ELSE unsigned.value

\* The host the requests are sent to (req.url.netloc).
OwnHost == <<"h">>

\* What awaiting the registered user_loader raises: nothing, an exception of
\* a subclass of Exception, or one that is a BaseException only (the
\* asyncio.CancelledError of a cancelled task, KeyboardInterrupt).
loader_raises(m) ==
    CASE m.user_loader = "raises" -> "Exception"
      [] m.user_loader = "interrupted" -> "BaseException"
      [] OTHER -> "none"

\* Line 140: "except Exception" (and an except clause that caught all).
is_BaseException(exc) == exc \in {"Exception", "BaseException"}

is_Exception(exc) == exc = "Exception"

\* LoginManager._load_current_user(req): the returned user, req.state.user
\* and the session afterwards, whether user_loader was called, and the
\* exception that leaves the call.
_load_current_user(m, sess, r) ==
    LET cached == IF r.state_user.t = "absent" THEN None ELSE r.state_user
        sid == IF sess.uid.t = "absent" THEN None ELSE sess.uid
        user_id == IF Truthy(sid) THEN sid ELSE _unsign_cookie(r.cookie)
        exc == loader_raises(m)
        user == IF exc /= "none" THEN None ELSE user_loader(user_id)
    IN IF cached.t /= "None"
       THEN [ret |-> cached, state_user |-> r.state_user, session |-> sess, loaded |-> FALSE,
             raised |-> "no"]
       ELSE IF m.user_loader = "unset"
       THEN [ret |-> None, state_user |-> None, session |-> sess, loaded |-> FALSE,
             raised |-> "no"]
       ELSE IF ~Truthy(user_id)
       THEN [ret |-> None, state_user |-> None, session |-> sess, loaded |-> FALSE,
             raised |-> "no"]
       ELSE IF exc /= "none" /\ ~is_Exception(exc)
       THEN [ret |-> None, state_user |-> r.state_user, session |-> sess, loaded |-> TRUE,
             raised |-> exc]
       ELSE IF Truthy(user)
       THEN [ret |-> user, state_user |-> user,
             session |-> [sess EXCEPT !.uid = user_id], loaded |-> TRUE, raised |-> "no"]
       ELSE [ret |-> user, state_user |-> None, session |-> sess, loaded |-> TRUE,
             raised |-> "no"]

\* Lines 91-92: login_url, "&" if it holds a "?" else "?", "next=", the
\* quoted path.
next_url_of(login_url, path) ==
    login_url \o (IF "?" \in Range(login_url) THEN <<"&">> ELSE <<"?">>)
              \o <<"n", "e", "x", "t", "=">> \o quote(path)

\* Line 85: "if reason is AuthFailureReason.UNAUTHENTICATED" (and the test
\* left out: every failure is sent to the login page).
any_reason(reason) == TRUE

is_unauthenticated(reason) == reason = "UNAUTHENTICATED"

\* LoginManager.default_failure(req, resp, reason): the response and the
\* request (line 89 stores the quoted path in req.params["next"]), or a
\* raise out of _apply_redirect.
default_failure(m, r, rs, reason) ==
    IF is_unauthenticated(reason)
    THEN IF Truthy(m.login_url)
         THEN LET r1 == [r EXCEPT !.next = Url(quote(r.path))]
                  target == redirect_target(r1.next, OwnHost, m.login_url,
                                            Url(next_url_of(m.login_url.u, r.path)))
              IN IF target.raised /= "no"
                 THEN [raised |-> target.raised, req |-> r1, resp |-> rs]
                 ELSE [raised |-> "no", req |-> r1,
                       resp |-> redirect(rs, target.url, FOUND)]
         ELSE [raised |-> "no", req |-> r,
               resp |-> [rs EXCEPT !.status_code = UNAUTHORIZED401,
                                   !.text = "Authentication required"]]
    ELSE [raised |-> "no", req |-> r,
          resp |-> [rs EXCEPT !.status_code = FORBIDDEN,
                              !.text = "You do not have permission to access this resource"]]

\* Line 314: "if role and ...": only a truthy role is checked.
role_never_checked(role) == FALSE

role_checked(role) == Truthy(role)

\* Lines 227-228: "if session: req.session.pop(USER_ID_KEY, None)".
session_kept(sess) == sess

session_popped(sess) ==
    IF sess.uid.t /= "absent" \/ sess.extra THEN [sess EXCEPT !.uid = Absent] ELSE sess

\* What a call on the LoginManager leaves in "last".
NoCall ==
    [op |-> "none", outcome |-> "none", reason |-> "none", handler |-> "none",
     role |-> None, user |-> None, loaded |-> FALSE, hooks |-> 0, hook_log |-> <<>>,
     remember_me |-> FALSE, redirect_url |-> None]

\* What the registered get_user_roles callback yields for a user.
_role_loader(m, user) == IF m.role_loader = "unset" THEN Unset ELSE user.roles

\* The hooks a "for hook in hooks: await hook(...)" loop calls when hook
\* number fail raises (0: none raises).
hooks_called(n, fail) == IF fail = 0 \/ fail > n THEN n ELSE fail

hooks_outcome(n, fail) == IF fail = 0 \/ fail > n THEN "ok" ELSE "HookError"

\* on_login(fn) / on_logout(fn): self._on_login.append(fn) (and the hook put
\* in front instead).
on_login_first(hooks, fn) == <<fn>> \o hooks

on_login(hooks, fn) == Append(hooks, fn)

\* The list after n registrations; a hook is named by the number of its
\* registration.
RECURSIVE registered(_)
registered(n) == IF n = 0 THEN <<>> ELSE on_login(registered(n - 1), n)

\* "for hook in hooks: await hook(req, resp, user)": what the loop does, in
\* order, when the hook named fail raises.  Each hook is called with user and
\* has returned or raised before the loop goes on.
RECURSIVE run_hooks(_, _, _)
run_hooks(hooks, fail, user) ==
    IF hooks = <<>> THEN <<>>
    ELSE LET called == [hook |-> Head(hooks), ev |-> "called", user |-> user]
         IN IF Head(hooks) = fail
            THEN <<called, [called EXCEPT !.ev = "raised"]>>
            ELSE <<called, [called EXCEPT !.ev = "returned"]>>
                 \o run_hooks(Tail(hooks), fail, user)

\* LoginManager.login(req, resp, user, remember_me=, redirect_url=).
login(m, sess, r, rs, user, remember_me, redirect_url, fail) ==
    LET user_id == user_id_of(user)
        call == [NoCall EXCEPT !.op = "login", !.user = user,
                               !.remember_me = remember_me, !.redirect_url = redirect_url]
        rs1 == IF remember_me
               THEN set_cookie(rs, sign(str(user_id)), remember_me_duration, "lax",
                               r.scheme = "https")
               ELSE rs
        target == redirect_target(r.next, OwnHost, redirect_url, None)
    IN IF user_id.t = "None"
       THEN [session |-> sess, req |-> r, resp |-> rs,
             last |-> [call EXCEPT !.outcome = "TypeError"]]
       ELSE IF hooks_outcome(m.n_login_hooks, fail) /= "ok"
       THEN [session |-> [sess EXCEPT !.uid = str(user_id)],
             req |-> [r EXCEPT !.state_user = user], resp |-> rs1,
             last |-> [call EXCEPT !.outcome = "HookError",
                                   !.hooks = hooks_called(m.n_login_hooks, fail),
                                   !.hook_log = run_hooks(registered(m.n_login_hooks),
                                                          fail, user)]]
       ELSE [session |-> [sess EXCEPT !.uid = str(user_id)],
             req |-> [r EXCEPT !.state_user = user],
             resp |-> IF target.raised = "no" THEN redirect(rs1, target.url, FOUND) ELSE rs1,
             last |-> [call EXCEPT !.outcome = IF target.raised = "no" THEN "ok"
                                                ELSE target.raised,
                                   !.hooks = m.n_login_hooks,
                                   !.hook_log = run_hooks(registered(m.n_login_hooks),
                                                          fail, user)]]

\* LoginManager.logout(req, resp).
logout(m, sess, r, rs, fail) ==
    LET user == IF r.state_user.t = "absent" THEN None ELSE r.state_user
        n == IF Truthy(user) THEN m.n_logout_hooks ELSE 0
    IN [session |-> session_popped(sess),
        req |-> [r EXCEPT !.state_user = None],
        resp |-> delete_cookie(rs, r.scheme = "https"),
        last |-> [NoCall EXCEPT !.op = "logout", !.user = user,
                                !.outcome = hooks_outcome(n, fail),
                                !.hooks = hooks_called(n, fail),
                                !.hook_log = run_hooks(registered(n), fail, user)]]

\* self._on_failure(req, resp, reason): default_failure, or the handler
\* registered with on_failure (which leaves the response alone here).
_on_failure(m, r, rs, call, reason) ==
    LET df == default_failure(m, r, rs, reason)
    IN IF m.on_failure = "custom"
       THEN [req |-> r, resp |-> rs,
             last |-> [call EXCEPT !.outcome = "failure", !.handler = "custom",
                                   !.reason = reason]]
       ELSE [req |-> df.req, resp |-> df.resp,
             last |-> [call EXCEPT !.outcome = IF df.raised = "no" THEN "failure"
                                                ELSE df.raised,
                                   !.handler = "default_failure", !.reason = reason]]

\* The wrapper LoginManager.login_required(role=role) puts around a view.
login_required(m, sess, r, rs, role) ==
    LET ld == _load_current_user(m, sess, r)
        r1 == [r EXCEPT !.state_user = ld.state_user]
        call == [NoCall EXCEPT !.op = "login_required", !.role = role,
                               !.user = ld.ret, !.loaded = ld.loaded]
        allowed == _authorize(role, _role_loader(m, ld.ret))
        refuse(reason) == [session |-> ld.session] @@ _on_failure(m, r1, rs, call, reason)
    IN IF ld.raised /= "no"
       THEN [session |-> ld.session, req |-> r1, resp |-> rs,
             last |-> [call EXCEPT !.outcome = ld.raised]]
       ELSE IF ~Truthy(ld.ret) THEN refuse("UNAUTHENTICATED")
       ELSE IF role_checked(role) /\ allowed \notin {"True", "False"}
       THEN [session |-> ld.session, req |-> r1, resp |-> rs,
             last |-> [call EXCEPT !.outcome = allowed]]
       ELSE IF role_checked(role) /\ allowed = "False" THEN refuse("UNAUTHORIZED")
       ELSE [session |-> ld.session, req |-> r1, resp |-> rs,
             last |-> [call EXCEPT !.outcome = "view"]]

\* ------------------------------------------------------------------------
\* Requests against one LoginManager
\* ------------------------------------------------------------------------
\* Hooks registered with on_login, and with on_logout.
MaxHooks == 2

\* Requests the client sends, one after the other.
MaxRequests == 2

\* Calls on the LoginManager, over all the requests.
MaxOps == 2

\* login_url of the LoginManager: none, a path, a path with a query, the
\* own host, another host, another host without a scheme.
LoginUrls ==
    {None, Url(<<"/", "l">>), Url(<<"/", "l", "?", "a", "=", "2">>),
     Url(<<"h", ":", "/", "/", "h", "/", "l">>), Url(<<"h", ":", "/", "/", "e", "/", "l">>),
     Url(<<"/", "/", "e", "/", "l">>)}

\* role= of the protected views.
ViewRoles ==
    {None, Str("admin"), List(<<>>), List(<<Str("admin"), Str("editor")>>),
     List(<<List(<<"admin", "editor">>)>>), List(<<List(<<>>)>>)}

\* A session nothing was stored in.
NoSession == [uid |-> Absent, extra |-> FALSE]

\* No request came before.
NoPrevious == [call |-> None, session_sent |-> FALSE]

\* The request the client sends while it holds the cookie c.
Request(c, path, next, scheme) ==
    [cookie |-> c, state_user |-> Absent, path |-> path, next |-> next, scheme |-> scheme]

InitSession ==
    /\ az = None
    /\ backend = None
    /\ \E n \in {0, MaxHooks} :
           lm \in [login_url : {None, Url(<<"/", "l">>)},
                   user_loader : {"unset", "table", "raises"}, role_loader : {"set"},
                   on_failure : {"default", "custom"},
                   n_login_hooks : {n}, n_logout_hooks : {n}]
    /\ session \in {[uid |-> Absent, extra |-> FALSE], [uid |-> Str("123"), extra |-> FALSE],
                    [uid |-> Str("99"), extra |-> TRUE]}
    /\ jar \in {Absent, sign(Str("7"))}
    /\ req = Request(jar, <<"/", "a">>, None, "http")
    /\ resp = FreshResponse
    /\ last = NoCall
    /\ prev = NoPrevious
    /\ n_req = 1
    /\ n_ops = 0

\* The response goes out, the client keeps or drops the remember-me cookie
\* it carries, and sends its next request: with the session it holds, or
\* (the session cookie lost or expired) with a new, empty one. A request on
\* which nothing was called changes nothing, and an empty session lost is an
\* empty session sent: neither is a step. prev keeps of the last call what
\* the client saw of it.
NewRequest ==
    /\ n_req < MaxRequests
    /\ last.op /= "none" /\ n_ops < MaxOps
    /\ n_req' = n_req + 1
    /\ jar' = IF resp.cookie.t = "absent" THEN jar
              ELSE IF resp.cookie.max_age = 0 THEN Absent ELSE resp.cookie.value
    /\ \E session_sent \in IF session = NoSession THEN {TRUE} ELSE BOOLEAN :
           /\ session' = IF session_sent THEN session ELSE NoSession
           /\ prev' = [call |-> [op |-> last.op, outcome |-> last.outcome, user |-> last.user,
                                 remember_me |-> last.remember_me],
                       session_sent |-> session_sent]
    /\ req' = Request(jar', <<"/", "a">>, None, "http")
    /\ resp' = FreshResponse
    /\ last' = NoCall
    /\ UNCHANGED <<az, backend, lm, n_ops>>

Call(result) ==
    /\ n_ops < MaxOps
    /\ n_ops' = n_ops + 1
    /\ session' = result.session
    /\ req' = result.req
    /\ resp' = result.resp
    /\ last' = result.last
    /\ UNCHANGED <<az, backend, lm, jar, prev, n_req>>

LoadCurrentUser ==
    LET ld == _load_current_user(lm, session, req)
    IN Call([session |-> ld.session, req |-> [req EXCEPT !.state_user = ld.state_user],
             resp |-> resp,
             last |-> [NoCall EXCEPT !.op = "_load_current_user", !.user = ld.ret,
                                     !.loaded = ld.loaded,
                                     !.outcome = IF ld.raised = "no" THEN "ok"
                                                 ELSE ld.raised]])

Login ==
    \E user \in {Alice, Bob, Zed, Nobody}, remember_me \in BOOLEAN, fail \in 0..lm.n_login_hooks :
        Call(login(lm, session, req, resp, user, remember_me, Url(<<"/", "d">>), fail))

Logout ==
    \E fail \in 0..lm.n_logout_hooks : Call(logout(lm, session, req, resp, fail))

ProtectedView ==
    \E role \in ViewRoles : Call(login_required(lm, session, req, resp, role))

NextSession ==
    NewRequest \/ LoadCurrentUser \/ Login \/ Logout \/ ProtectedView

SpecSession == InitSession /\ [][NextSession]_vars

\* ------------------------------------------------------------------------
\* Requests against a LoginManager whose user_loader raises
\* ------------------------------------------------------------------------
InitLoader ==
    /\ az = None
    /\ backend = None
    /\ lm \in [login_url : {None, Url(<<"/", "l">>)},
               user_loader : {"raises", "interrupted"}, role_loader : {"set"},
               on_failure : {"default", "custom"},
               n_login_hooks : {0}, n_logout_hooks : {0}]
    /\ session \in {[uid |-> Absent, extra |-> FALSE], [uid |-> Str("123"), extra |-> FALSE],
                    [uid |-> Str("99"), extra |-> TRUE]}
    /\ jar \in {Absent, sign(Str("7"))}
    /\ req = Request(jar, <<"/", "a">>, None, "http")
    /\ resp = FreshResponse
    /\ last = NoCall
    /\ prev = NoPrevious
    /\ n_req = 1
    /\ n_ops = 0

NextLoader == LoadCurrentUser \/ ProtectedView

SpecLoader == InitLoader /\ [][NextLoader]_vars

\* ------------------------------------------------------------------------
\* One call on a LoginManager, over the URLs of the request and of the
\* configuration
\* ------------------------------------------------------------------------
\* Characters of the request's next parameter.
MaxUrlLen == 5

\* Characters of the request path after the leading "/".
MaxPathLen == 2

\* next=...: paths, URLs of the own host ("h") and of another ("e"),
\* scheme-relative URLs, unbalanced brackets.
NextParams == {Url(u) : u \in SeqsUpTo({"/", ":", "h", "e", "["}, MaxUrlLen) \ {<<>>}}

Paths == {<<"/">> \o p : p \in SeqsUpTo({"a", "/", ":", "?"}, MaxPathLen)}

InitUrls ==
    /\ az = None
    /\ backend = None
    /\ \/ /\ lm = [login_url |-> Url(<<"/", "l">>), user_loader |-> "table",
                   role_loader |-> "set", on_failure |-> "default",
                   n_login_hooks |-> 0, n_logout_hooks |-> 0]
          /\ session = [uid |-> Absent, extra |-> FALSE]
          /\ \E next \in NextParams : req = Request(Absent, <<"/", "a">>, next, "http")
       \/ /\ \E login_url \in LoginUrls :
                 lm = [login_url |-> login_url, user_loader |-> "table",
                       role_loader |-> "set", on_failure |-> "default",
                       n_login_hooks |-> 0, n_logout_hooks |-> 0]
          /\ session \in {[uid |-> Absent, extra |-> FALSE], [uid |-> Str("123"), extra |-> FALSE]}
          /\ \E path \in Paths : req = Request(Absent, path, None, "http")
    /\ jar = Absent
    /\ resp = FreshResponse
    /\ last = NoCall
    /\ prev = NoPrevious
    /\ n_req = 1
    /\ n_ops = MaxOps - 1

DefaultFailure ==
    \E reason \in {"UNAUTHENTICATED", "UNAUTHORIZED"} :
        Call([session |-> session]
             @@ _on_failure([lm EXCEPT !.on_failure = "default"], req, resp,
                            [NoCall EXCEPT !.op = "default_failure"], reason))

NextUrls == Login \/ ProtectedView \/ DefaultFailure

SpecUrls == InitUrls /\ [][NextUrls]_vars

\* ------------------------------------------------------------------------
\* One request of a client, over the remember-me cookie values it can send
\* ------------------------------------------------------------------------
\* The ids and the signing times of the cookies: at Now, remember_me_duration
\* ago, one second more ago, and one second ahead.
CookieIds == {"123", "7"}

CookieTimes == {0, 1, Now, Now + 1}

\* No cookie, a text that was never signed, and every combination of a
\* carried id and timestamp with a signature made under the secret or
\* another key, the cookie name or another salt, for that or another id and
\* timestamp.
CookieValues ==
    {Absent, Str("invalid")}
    \cup {Cookie(uid, [ts |-> ts, mac |-> get_signature(key, salt, signed_uid, signed_ts)]) :
             uid \in CookieIds, ts \in CookieTimes,
             key \in {secret_key, "other"}, salt \in {remember_me_cookie_name, "session"},
             signed_uid \in CookieIds, signed_ts \in CookieTimes}

InitCookies ==
    /\ az = None
    /\ backend = None
    /\ lm = [login_url |-> None, user_loader |-> "table", role_loader |-> "set",
             on_failure |-> "default", n_login_hooks |-> 0, n_logout_hooks |-> 0]
    /\ session = NoSession
    /\ jar \in CookieValues
    /\ req = Request(jar, <<"/", "a">>, None, "http")
    /\ resp = FreshResponse
    /\ last = NoCall
    /\ prev = NoPrevious
    /\ n_req = 1
    /\ n_ops = MaxOps - 1

UnsignCookie ==
    Call([session |-> session, req |-> req, resp |-> resp,
          last |-> [NoCall EXCEPT !.op = "_unsign_cookie", !.outcome = "ok",
                                  !.user = _unsign_cookie(req.cookie)]])

NextCookies == UnsignCookie \/ LoadCurrentUser

SpecCookies == InitCookies /\ [][NextCookies]_vars

\* ------------------------------------------------------------------------
\* LoginMiddleware
\* ------------------------------------------------------------------------
\* The ASGI scope: its type, its "state" dict (absent, or holding "user" and
\* another key) and the remember-me cookie of its headers.
Scope(type, state, cookie) == [type |-> type, state |-> state, cookie |-> cookie]

ScopeTypes == {"http", "websocket", "lifespan"}

ScopeStates ==
    {Absent, [user |-> Absent, other |-> FALSE], [user |-> None, other |-> TRUE],
     [user |-> Alice, other |-> TRUE]}

\* scope.setdefault("state", {})
setdefault_state(scope) ==
    IF scope.state = Absent THEN [scope EXCEPT !.state = [user |-> Absent, other |-> FALSE]]
    ELSE scope

\* Request(scope, receive): its state namespace and its cookies are those of
\* the scope.
ScopeRequest(scope) ==
    [Request(scope.cookie, <<"/", "a">>, None, "http") EXCEPT !.state_user = scope.state.user]

\* getattr(req, "session", None) of a scope that holds no session reads as
\* None: no identity is found in it.
session_mapping(sess) == IF sess = Absent THEN NoSession ELSE sess

\* Line 335: scope["type"] != "http" hands the scope on at once.
every_scope_is_http(scope) == scope.type /= "lifespan"

is_http(scope) == scope.type = "http"

NoMiddlewareCall == [op |-> "none", app_calls |-> <<>>, loads |-> 0, user |-> None]

\* LoginMiddleware.__call__(scope, receive, send); app_calls lists the scopes
\* the inner application was called with, loads counts the calls of
\* _load_current_user.
LoginMiddleware_call(m, sess, scope) ==
    IF ~is_http(scope)
    THEN [session |-> sess, req |-> scope, resp |-> FreshResponse,
          last |-> [op |-> "LoginMiddleware", app_calls |-> <<scope>>, loads |-> 0,
                    user |-> None]]
    ELSE LET scope1 == setdefault_state(scope)
             ld == _load_current_user(m, session_mapping(sess), ScopeRequest(scope1))
             scope2 == [scope1 EXCEPT !.state.user = ld.ret]
         IN IF ld.raised /= "no"
            THEN [session |-> sess, req |-> scope1, resp |-> FreshResponse,
                  last |-> [op |-> "LoginMiddleware", app_calls |-> <<>>, loads |-> 1,
                            user |-> None]]
            ELSE [session |-> IF sess = Absent THEN Absent ELSE ld.session,
                  req |-> scope2, resp |-> FreshResponse,
                  last |-> [op |-> "LoginMiddleware", app_calls |-> <<scope2>>, loads |-> 1,
                            user |-> ld.ret]]

InitMiddleware ==
    /\ az = None
    /\ backend = None
    /\ lm \in [login_url : {None}, user_loader : {"unset", "table", "raises"},
               role_loader : {"set"}, on_failure : {"default"},
               n_login_hooks : {0}, n_logout_hooks : {0}]
    /\ session \in {Absent, NoSession, [uid |-> Str("123"), extra |-> FALSE],
                    [uid |-> Str("99"), extra |-> TRUE]}
    /\ jar \in {Absent, sign(Str("7")), Str("invalid")}
    /\ req \in {Scope(type, state, jar) : type \in ScopeTypes, state \in ScopeStates}
    /\ resp = FreshResponse
    /\ last = NoMiddlewareCall
    /\ prev = NoPrevious
    /\ n_req = 1
    /\ n_ops = 0

\* The server hands a scope to the middleware.
Dispatch ==
    /\ last.op = "none"
    /\ Call(LoginMiddleware_call(lm, session, req))

\* The next scope of the same client arrives.
NextScope ==
    /\ n_req < MaxRequests
    /\ last.op /= "none"
    /\ n_req' = n_req + 1
    /\ req' \in {Scope(type, state, jar) : type \in ScopeTypes, state \in ScopeStates}
    /\ prev' = [call |-> last, session_sent |-> TRUE]
    /\ last' = NoMiddlewareCall
    /\ UNCHANGED <<az, backend, lm, session, jar, resp, n_ops>>

NextMiddleware == Dispatch \/ NextScope

SpecMiddleware == InitMiddleware /\ [][NextMiddleware]_vars

\* ------------------------------------------------------------------------
\* Header texts: a text is Text(x), x the sequence of its tokens (words,
\* separators, base64 and hex strings).
\* ------------------------------------------------------------------------
Text(x) == [t |-> "text", x |-> x]

Space == Str(" ")

Equals == Str("=")

CommaSpace == Str(", ")

Quote == Str("\"")

Colon == Str(":")

\* A word holding a character outside ASCII.
NonAscii == Str("n\\u00e9")

\* base64.b64encode(text)
b64encode(x) == [t |-> "b64", of |-> x]

\* hashlib.md5(text.encode("utf-8")).hexdigest()
md5(x) == Text(<<[t |-> "md5", of |-> x]>>)

\* secrets.token_hex(16), the k-th value drawn
token_hex(k) == Text(<<[t |-> "hex", k |-> k]>>)

\* An f-string field: str(None) is "None".
format(v) == IF v.t = "None" THEN <<Str("None")>> ELSE v.x

\* f"{a}:{b}:{c}"
RECURSIVE colon_join(_)
colon_join(vs) ==
    IF Len(vs) = 1 THEN format(vs[1])
    ELSE format(vs[1]) \o <<Colon>> \o colon_join(Tail(vs))

\* str.lstrip / str.rstrip / str.strip of the token c
lstrip(x, c) ==
    LET k == CHOOSE k \in 0..Len(x) :
                 /\ \A j \in 1..k : x[j] = c
                 /\ k = Len(x) \/ x[k + 1] /= c
    IN SubSeq(x, k + 1, Len(x))

rstrip(x, c) ==
    LET k == CHOOSE k \in 0..Len(x) :
                 /\ \A j \in (k + 1)..Len(x) : x[j] = c
                 /\ k = 0 \/ x[k] /= c
    IN SubSeq(x, 1, k)

strip(x, c) == rstrip(lstrip(x, c), c)

\* str.split(sep)
RECURSIVE split(_, _)
split(x, sep) ==
    LET i == FirstIndex(x, {sep}, 1)
    IN IF i = 0 THEN <<x>>
       ELSE <<SubSeq(x, 1, i - 1)>> \o split(SubSeq(x, i + 1, Len(x)), sep)

\* str.split(sep, 1) (and str.rsplit(sep, 1), which splits at the last sep)
rsplit_once(x, sep) ==
    LET parts == split(x, sep)
    IN IF Len(parts) = 1 THEN parts
       ELSE <<SubSeq(x, 1, Len(x) - Len(parts[Len(parts)]) - 1), parts[Len(parts)]>>

split_once(x, sep) ==
    LET i == FirstIndex(x, {sep}, 1)
    IN IF i = 0 THEN <<x>> ELSE <<SubSeq(x, 1, i - 1), SubSeq(x, i + 1, Len(x))>>

\* str.split(maxsplit=1): the first word and the rest, split at whitespace.
split_maxsplit(x) ==
    LET body == lstrip(x, Space)
        i == FirstIndex(body, {Space}, 1)
        rest == IF i = 0 THEN <<>> ELSE lstrip(SubSeq(body, i, Len(body)), Space)
    IN IF body = <<>> THEN <<>>
       ELSE IF rest = <<>> THEN <<rstrip(body, Space)>>
       ELSE <<SubSeq(body, 1, i - 1), rest>>

\* hmac.compare_digest(a, b) on two str: TypeError when either holds a
\* character outside ASCII.
compare_digest(a, b) ==
    IF NonAscii \in Range(a) \cup Range(b) THEN "TypeError"
    ELSE IF a = b THEN "True" ELSE "False"

\* ------------------------------------------------------------------------
\* Backend, TokenAuth, BasicAuth, DigestAuth
\* ------------------------------------------------------------------------
AuthenticationRequired == <<Str("Authentication Required")>>

Name(s) == Text(<<Str(s)>>)

\* What the registered get_user_roles callback yields for a principal.
get_user_roles_callback(b, user) ==
    IF b.get_user_roles = "unset" THEN Unset
    ELSE IF user = Name("alice") THEN List(<<"editor", "user">>)
    ELSE IF user = Name("bob") THEN Str("admin")
    ELSE None

\* The registered verify_token callback, or default_verify_token.
verify_token_callback(b, token) ==
    IF b.verify = "default" THEN None
    ELSE IF token = <<Str("t-alice")>> THEN Name("alice")
    ELSE IF token = <<Str("t-bob")>> THEN Name("bob")
    ELSE IF token = <<Str("t-carol")>> THEN Name("carol")
    ELSE IF token = <<Str("t-anon")>> THEN Text(<<>>)
    ELSE None

\* The registered verify_password callback, or default_verify_password.
verify_password_callback(b, username, password) ==
    IF b.verify = "default" THEN None
    ELSE IF username = <<Str("alice")>> /\ password = <<Str("pw")>> THEN Name("alice")
    ELSE IF username = <<Str("carol")>> /\ password = <<Str("p"), Colon, Str("w")>>
    THEN Name("carol")
    ELSE IF username = <<Str("dave"), Colon, Str("x")>> /\ password = <<Str("pw")>>
    THEN Name("dave")
    ELSE None

\* The registered get_password callback, or default_get_password.  With
\* use_ha1_pw the store holds md5("username:realm:password").
get_password_callback(b, username) ==
    IF b.verify = "default" \/ username /= Name("alice") THEN None
    ELSE IF b.use_ha1_pw
    THEN md5(<<Str("alice"), Colon>> \o b.realm \o <<Colon, Str("pw")>>)
    ELSE Name("pw")

\* Backend.get_credentials(request)
get_credentials(b, r) ==
    IF b.header \notin DOMAIN r.headers THEN Raise("AuthenticationError")
    ELSE LET auth == split_maxsplit(r.headers[b.header])
         IN IF Len(auth) /= 2 THEN Raise("AuthenticationError")
            ELSE IF auth[1] /= <<Str(b.scheme)>> THEN Raise("AuthenticationError")
            ELSE Return(Text(auth[2]))

\* Lines 126-129: "if not user: raise AuthenticationError".
user_or_raise(user) ==
    IF ~Truthy(user) THEN Raise("AuthenticationError") ELSE Return(user)

\* Lines 125-126, with the outcome of get_credentials.
verify_token(b, token) ==
    IF token.raised /= "no" THEN token
    ELSE user_or_raise(verify_token_callback(b, token.value.x))

\* TokenAuth.authenticate(request)
TokenAuth_authenticate(b, r) == verify_token(b, get_credentials(b, r))

\* base64.b64decode(credentials): binascii.Error, a ValueError, for a text
\* that is no base64 encoding.
b64decode(x) ==
    IF Len(x) = 1 /\ x[1].t = "b64" THEN Return(Text(x[1].of)) ELSE Raise("ValueError")

\* Lines 148-161, with the pieces of "decoded.split(b':', 1)".
verify_password(b, pair) ==
    IF Len(pair) /= 2 THEN Raise("AuthenticationError")
    ELSE user_or_raise(verify_password_callback(b, pair[1], pair[2]))

\* Lines 147-150, with the outcome of b64decode.
decode_basic(b, decoded) ==
    IF decoded.raised /= "no" THEN Raise("AuthenticationError")
    ELSE verify_password(b, split_once(decoded.value.x, Colon))

\* Lines 146-147, with the outcome of get_credentials.
basic_credentials(b, credentials) ==
    IF credentials.raised /= "no" THEN credentials
    ELSE decode_basic(b, b64decode(credentials.value.x))

\* BasicAuth.authenticate(request)
BasicAuth_authenticate(b, r) == basic_credentials(b, get_credentials(b, r))

\* DigestAuth._parse_credentials(credentials): the (key, value) items in
\* the order they are stored, or the ValueError of "key, value = ...".
_parse_credentials(credentials) ==
    LET parts == split(credentials, CommaSpace)
        items == [i \in DOMAIN parts |-> split(parts[i], Equals)]
    IN IF \E i \in DOMAIN items : Len(items[i]) /= 2 THEN Raise("ValueError")
       ELSE Return([i \in DOMAIN items |->
                       [key |-> strip(items[i][1], Space),
                        value |-> strip(items[i][2], Quote)]])

\* auth.get(key): the value stored last under key, else None.
get(auth, key) ==
    LET at == {i \in DOMAIN auth : auth[i].key = <<Str(key)>>}
    IN IF at = {} THEN None
       ELSE Text(auth[CHOOSE i \in at : \A j \in at : j <= i].value)

\* default_verify_nonce / default_verify_opaque: "True", "False" or
\* "TypeError" (a verification that looks at the given value alone is the
\* one an accepted header would survive a new challenge with).
given_alone(stored, given) == IF given.t = "None" THEN "False" ELSE "True"

default_verify(stored, given) ==
    IF given.t = "None" \/ stored.t \in {"None", "absent"} THEN "False"
    ELSE compare_digest(given.x, stored.x)

\* Lines 276-294: the response the server expects for a password.
expected_response(b, r, username, nonce, uri, qop, cnonce, nc, password) ==
    LET ha1_pw == IF b.use_ha1_pw THEN password
                  ELSE md5(colon_join(<<username, Text(b.realm), password>>))
        ha1 == IF b.algorithm = "MD5-Sess" THEN md5(colon_join(<<ha1_pw, nonce, cnonce>>))
               ELSE ha1_pw
        ha2 == md5(colon_join(<<Name(r.method), uri>>))
    IN IF qop = Name("auth")
       THEN md5(colon_join(<<ha1, nonce, nc, cnonce, qop, ha2>>))
       ELSE md5(colon_join(<<ha1, nonce, ha2>>))

\* Lines 295-297, with the outcome of hmac.compare_digest.
digest_response(username, matches) ==
    IF matches = "TypeError" THEN Raise("TypeError")
    ELSE IF matches = "False" THEN Raise("AuthenticationError")
    ELSE Return(username)

\* Lines 268-271: "not verify_nonce(...) or not verify_opaque(...)", the
\* second called only when the first holds (and the opaque never verified).
nonce_alone(nonce_ok, opaque_ok) == nonce_ok

nonce_and_opaque(nonce_ok, opaque_ok) ==
    IF nonce_ok /= "True" THEN nonce_ok ELSE opaque_ok

\* Lines 268-297, with the outcome of the nonce and opaque callbacks.
digest_verified(b, r, username, nonce, uri, response, qop, cnonce, nc, verified) ==
    IF verified = "TypeError" THEN Raise("TypeError")
    ELSE IF verified = "False" THEN Raise("AuthenticationError")
    ELSE IF Truthy(qop) /\ qop.x \notin {<<Str(q)>> : q \in b.qop}
    THEN Raise("AuthenticationError")
    ELSE digest_response(
             username,
             compare_digest(
                 expected_response(b, r, username, nonce, uri, qop, cnonce, nc,
                                   get_password_callback(b, username)).x,
                 response.x))

\* Lines 265-297, with the parameters of the credential.
digest_parameters(b, r, sess, username, nonce, uri, response, opaque, qop, cnonce, nc) ==
    IF ~(Truthy(username) /\ Truthy(nonce) /\ Truthy(uri) /\ Truthy(response))
    THEN Raise("AuthenticationError")
    ELSE digest_verified(b, r, username, nonce, uri, response, qop, cnonce, nc,
                         nonce_and_opaque(default_verify(sess.auth_nonce, nonce),
                                          default_verify(sess.auth_opaque, opaque)))

\* Lines 254-263, with the outcome of _parse_credentials.
digest_parsed(b, r, sess, parsed) ==
    IF parsed.raised /= "no" THEN parsed
    ELSE digest_parameters(b, r, sess, get(parsed.value, "username"),
                           get(parsed.value, "nonce"), get(parsed.value, "uri"),
                           get(parsed.value, "response"), get(parsed.value, "opaque"),
                           get(parsed.value, "qop"), get(parsed.value, "cnonce"),
                           get(parsed.value, "nc"))

\* Lines 253-254, with the outcome of get_credentials.
digest_credentials(b, r, sess, credentials) ==
    IF credentials.raised /= "no" THEN credentials
    ELSE digest_parsed(b, r, sess, _parse_credentials(credentials.value.x))

\* DigestAuth.authenticate(request)
DigestAuth_authenticate(b, r, sess) ==
    digest_credentials(b, r, sess, get_credentials(b, r))

\* self.authenticate(req) of the three backends.
authenticate(b, r, sess) ==
    CASE b.scheme = "Bearer" -> TokenAuth_authenticate(b, r)
      [] b.scheme = "Basic" -> BasicAuth_authenticate(b, r)
      [] b.scheme = "Digest" -> DigestAuth_authenticate(b, r, sess)

\* Backend.auth_header / DigestAuth.auth_header: the challenge, and the
\* session once the k-th nonce and opaque are stored in it.
auth_header(b, sess, k) ==
    IF b.scheme /= "Digest"
    THEN [header |-> [scheme |-> b.scheme, realm |-> b.realm], session |-> sess]
    ELSE [header |-> [scheme |-> b.scheme, realm |-> b.realm,
                      nonce |-> token_hex(2 * k - 1), opaque |-> token_hex(2 * k),
                      algorithm |-> IF b.qop = {} THEN "" ELSE b.algorithm, qop |-> b.qop],
          session |-> [sess EXCEPT !.auth_nonce = token_hex(2 * k - 1),
                                   !.auth_opaque = token_hex(2 * k)]]

\* The handler registered with error_handler: default_auth_error, one that
\* leaves the response alone, one that sets the status and its own
\* challenge.
registered_handler(b, rs, status_code) ==
    CASE b.error_handler = "default" ->
             [rs EXCEPT !.text = "Unauthorized Access", !.status_code = status_code]
      [] b.error_handler = "silent" -> rs
      [] b.error_handler = "own_header" ->
             [rs EXCEPT !.status_code = status_code, !.www_authenticate = Str("Custom")]

\* Lines 47-48: "if res.status_code == 200: res.status_code = 401" (and the
\* status left as the handler left it).
status_left(rs) == rs

status_forced(rs) == IF rs.status_code = 200 THEN [rs EXCEPT !.status_code = 401] ELSE rs

\* self.auth_error_callback(req, resp, status_code): the wrapper
\* Backend.error_handler puts around the registered handler.
auth_error_callback(b, rs, sess, status_code, k) ==
    LET rs1 == registered_handler(b, rs, status_code)
        rs2 == status_forced(rs1)
        challenge == auth_header(b, sess, k)
    IN IF rs2.www_authenticate.t = "absent"
       THEN [resp |-> [rs2 EXCEPT !.www_authenticate = challenge.header],
             session |-> challenge.session]
       ELSE [resp |-> rs2, session |-> sess]

\* What a call of a view decorated by Backend.login_required leaves in
\* "last".
NoBackendCall ==
    [op |-> "none", outcome |-> "none", authenticated |-> "none", principal |-> None,
     role |-> None, optional |-> None, status_code |-> 0, views |-> 0, handlers |-> 0,
     backend |-> 0]

\* Lines 96 and 100: "return await self.auth_error_callback(req, resp,
\* status_code)".
error_response(b, sess, r, call, status_code, e) ==
    [session |-> e.session, req |-> r, resp |-> e.resp,
     last |-> [call EXCEPT !.outcome = "error_handler", !.handlers = 1,
                           !.status_code = status_code]]

\* Lines 97-102, with the outcome of authorize.
authorized_view(b, sess, r, rs, call, user, optional, k, allowed) ==
    IF allowed \in {"TypeError", "ValueError"}
    THEN [session |-> sess, req |-> r, resp |-> rs,
          last |-> [call EXCEPT !.outcome = allowed]]
    ELSE IF allowed = "None" /\ ~Truthy(optional)
    THEN error_response(b, sess, r, call, 403, auth_error_callback(b, rs, sess, 403, k))
    ELSE [session |-> sess, req |-> [r EXCEPT !.state_user = user], resp |-> rs,
          last |-> [call EXCEPT !.outcome = "view", !.views = 1]]

\* Lines 94-102, with the user of lines 90-93.
authenticated_view(b, sess, r, rs, role, optional, k, call, user) ==
    IF user.t = "None"
    THEN error_response(b, sess, r, call, 401, auth_error_callback(b, rs, sess, 401, k))
    ELSE authorized_view(b, sess, r, rs, call, user, optional, k,
                         authorize(role, get_user_roles_callback(b, user)))

\* Lines 89-102, with the outcome a of self.authenticate(req): an
\* AuthenticationError is caught, any other exception leaves the wrapper.
decorated(b, sess, r, rs, role, optional, k, a) ==
    IF a.raised \notin {"no", "AuthenticationError"}
    THEN [session |-> sess, req |-> r, resp |-> rs,
          last |-> [NoBackendCall EXCEPT !.op = "Backend.login_required", !.role = role,
                                         !.optional = optional, !.authenticated = a.raised,
                                         !.outcome = a.raised]]
    ELSE authenticated_view(
             b, sess, r, rs, role, optional, k,
             [NoBackendCall EXCEPT !.op = "Backend.login_required", !.role = role,
                                   !.optional = optional, !.authenticated = a.raised,
                                   !.principal = a.value],
             a.value)

\* The wrapper Backend.login_required(role=role, optional=optional) puts
\* around a view; k numbers the challenge it may issue.
Backend_login_required(b, sess, r, rs, role, optional, k) ==
    decorated(b, sess, r, rs, role, optional, k, authenticate(b, r, sess))

\* ------------------------------------------------------------------------
\* One request to a view protected by a stateless backend
\* ------------------------------------------------------------------------
Bool(v) == [t |-> "bool", b |-> v]

\* role= and optional= of the protected views.
BackendRoles == {None, Str("admin"), List(<<Str("admin"), Str("editor")>>),
                 List(<<List(<<"editor", "user">>)>>)}

Optionals == {None, Bool(TRUE), Bool(FALSE)}

\* Authorization headers every backend sees: none, an empty one, a bare
\* scheme, another scheme.
NoHeaders == [h \in {} |-> <<>>]

Authorization(x) == [h \in {"Authorization"} |-> x]

CommonHeaders(scheme) ==
    {NoHeaders, Authorization(<<>>), Authorization(<<Str(scheme)>>),
     Authorization(<<Str(scheme), Space>>),
     Authorization(<<Str("Other"), Space, Str("t-alice")>>)}

TokenHeaders ==
    CommonHeaders("Bearer")
    \cup {Authorization(<<Str("Bearer"), Space, Str(token)>>) :
            token \in {"t-alice", "t-bob", "t-carol", "t-anon", "t-unknown"}}

BasicHeaders ==
    CommonHeaders("Basic")
    \cup {Authorization(<<Str("Basic"), Space, b64encode(x)>>) :
            x \in {<<Str("alice"), Colon, Str("pw")>>, <<Str("alice"), Colon, Str("bad")>>,
                   <<Str("alice")>>, <<Str("carol"), Colon, Str("p"), Colon, Str("w")>>,
                   <<Str("bob"), Colon, Str("pw")>>,
                   <<Str("dave"), Colon, Str("x"), Colon, Str("pw")>>, <<>>}}
    \cup {Authorization(<<Str("Basic"), Space, Str("!!!")>>)}

\* key="value"
Param(key, value) == <<Str(key), Equals, Quote>> \o value \o <<Quote>>

\* key="value", key="value", ...
RECURSIVE Params(_)
Params(ps) ==
    IF Len(ps) = 1 THEN ps[1] ELSE ps[1] \o <<CommaSpace>> \o Params(Tail(ps))

\* The response a client computes by RFC 2617 from a password; uri and
\* nonce are texts.
ClientResponse(algorithm, username, password, method, uri, nonce, qop) ==
    LET A1 == <<Str(username), Colon>> \o AuthenticationRequired \o <<Colon, Str(password)>>
        HA1 == IF algorithm = "MD5-Sess"
               THEN md5(md5(A1).x \o <<Colon>> \o nonce \o <<Colon, Str("c1")>>)
               ELSE md5(A1)
        HA2 == md5(<<Str(method), Colon>> \o uri)
    IN IF qop = ""
       THEN md5(HA1.x \o <<Colon>> \o nonce \o <<Colon>> \o HA2.x)
       ELSE md5(HA1.x \o <<Colon>> \o nonce \o <<Colon, Str("01"), Colon, Str("c1"), Colon,
                           Str(qop), Colon>> \o HA2.x)

\* The parameter list of the Digest credential a client sends with a request
\* (method, uri) for a nonce and an opaque; an empty nonce or opaque is left
\* out.
Credential(algorithm, username, password, method, uri, nonce, opaque, qop) ==
    <<Param("username", <<Str(username)>>)>>
    \o (IF nonce = <<>> THEN <<>> ELSE <<Param("nonce", nonce)>>)
    \o <<Param("uri", uri),
         Param("response",
               ClientResponse(algorithm, username, password, method, uri, nonce, qop).x)>>
    \o (IF opaque = <<>> THEN <<>> ELSE <<Param("opaque", opaque)>>)
    \o (IF qop = "" THEN <<>>
        ELSE <<Param("qop", <<Str(qop)>>), Param("nc", <<Str("01")>>),
               Param("cnonce", <<Str("c1")>>)>>)

\* The parameter list of a Digest credential for GET /.
DigestParams(algorithm, username, password, nonce, opaque, qop) ==
    Credential(algorithm, username, password, "GET", <<Str("/")>>, <<Str(nonce)>>,
               IF opaque = "" THEN <<>> ELSE <<Str(opaque)>>, qop)

\* Parameters a client may add: a bare word, a value holding "=", a nonce
\* outside ASCII (stored last, it replaces the first), an empty username.
ExtraParams ==
    {<<>>, <<<<Str("auth")>>>>, <<Param("uri", <<Str("/"), Equals, Str("1")>>)>>,
     <<Param("nonce", <<NonAscii>>)>>, <<Param("username", <<>>)>>}

DigestHeaders ==
    CommonHeaders("Digest")
    \cup {Authorization(<<Str("Digest"), Space>>
                        \o Params(DigestParams(algorithm, who[1], who[2], nonce, opaque, qop)
                                  \o extra)) :
            algorithm \in {"MD5", "MD5-Sess"},
            who \in {<<"alice", "pw">>, <<"alice", "bad">>, <<"mallory", "None">>},
            nonce \in {"n1", "n2"}, opaque \in {"o1", ""}, qop \in {"", "auth"},
            extra \in ExtraParams}

\* req.session of a request to a DigestAuth view: empty, or holding the
\* nonce and opaque of an earlier challenge.
BackendSessions ==
    {[auth_nonce |-> Absent, auth_opaque |-> Absent],
     [auth_nonce |-> Name("n1"), auth_opaque |-> Name("o1")]}

BackendRequest(headers) == [headers |-> headers, method |-> "GET", state_user |-> Absent]

TokenAuth ==
    [scheme : {"Bearer"}, realm : {AuthenticationRequired}, header : {"Authorization"},
     verify : {"default", "table"}, get_user_roles : {"set"},
     error_handler : {"default", "silent", "own_header"},
     use_ha1_pw : {FALSE}, algorithm : {"MD5"}, qop : {{}}]

BasicAuth ==
    [scheme : {"Basic"}, realm : {AuthenticationRequired}, header : {"Authorization"},
     verify : {"default", "table"}, get_user_roles : {"set"},
     error_handler : {"default", "silent", "own_header"},
     use_ha1_pw : {FALSE}, algorithm : {"MD5"}, qop : {{}}]

DigestAuth ==
    [scheme : {"Digest"}, realm : {AuthenticationRequired}, header : {"Authorization"},
     verify : {"default", "table"}, get_user_roles : {"set"},
     error_handler : {"default"},
     use_ha1_pw : BOOLEAN, algorithm : {"MD5", "MD5-Sess"}, qop : {{"auth"}}]

InitBackend ==
    /\ az = None /\ lm = None /\ jar = Absent
    /\ \/ /\ backend \in TokenAuth
          /\ \E headers \in TokenHeaders : req = BackendRequest(headers)
          /\ session = [auth_nonce |-> Absent, auth_opaque |-> Absent]
       \/ /\ backend \in BasicAuth
          /\ \E headers \in BasicHeaders : req = BackendRequest(headers)
          /\ session = [auth_nonce |-> Absent, auth_opaque |-> Absent]
       \/ /\ backend \in DigestAuth
          /\ \E headers \in DigestHeaders : req = BackendRequest(headers)
          /\ session \in BackendSessions
    /\ resp = FreshResponse
    /\ last = NoBackendCall
    /\ prev = NoPrevious
    /\ n_req = 1
    /\ n_ops = MaxOps - 1

\* A request reaches a view decorated with login_required(role=, optional=).
BackendView ==
    \E role \in BackendRoles, optional \in Optionals :
        Call(Backend_login_required(backend, session, req, resp, role, optional, n_ops + 1))

NextBackend == BackendView

SpecBackend == InitBackend /\ [][NextBackend]_vars

\* ------------------------------------------------------------------------
\* Config
\* ------------------------------------------------------------------------
\* Keys are sequences of name parts, so that env_prefix + key is a
\* concatenation. A mapping is a function from the keys it holds.
ConfigKeys == {<<"KEY">>, <<"PATH">>}

Prefixes == {<<>>, <<"APP_">>}

Mapping(keys, value) == [k \in keys |-> value]

\* os.environ of the process.
ProcessEnvirons ==
    {Mapping({<<"PATH">>}, Str("/bin")), Mapping({<<"PATH">>, <<"APP_", "KEY">>}, Str("/bin"))}

\* The environ argument: os.environ (the default) or a mapping of the caller.
Environs ==
    {[custom |-> FALSE, map |-> Mapping({}, None)]}
    \cup {[custom |-> TRUE, map |-> Mapping(keys, Str("1"))] :
             keys \in SUBSET {<<"KEY">>, <<"APP_", "KEY">>}}

\* The dict itself: values read from the .env file or set by from_object.
Stores == {Mapping({}, None), Mapping({<<"KEY">>}, Str("TRUE")), Mapping({<<"KEY">>}, PyInt(7))}

Casts == {"None", "bool", "int"}

\* self._environ
environ_of(cfg, os_environ) == IF cfg.environ.custom THEN cfg.environ.map ELSE os_environ

\* str.lower() on the values in use.
lower(x) == IF x = "TRUE" THEN "true" ELSE x

\* int(value) on the values in use.
int(v) ==
    IF v.t = "int" THEN Return(v)
    ELSE IF v.s \in {"0", "1"} THEN Return(PyInt(IF v.s = "1" THEN 1 ELSE 0))
    ELSE Raise("ValueError")

\* Lines 78-98.
_perform_cast(value, cast) ==
    IF cast = "None" \/ value = None THEN Return(value)
    ELSE IF cast = "bool" /\ value.t = "str"
    THEN IF lower(value.s) \in {"true", "1", "false", "0"}
         THEN Return(Bool(lower(value.s) \in {"true", "1"}))
         ELSE Raise("ValueError")
    ELSE IF cast = "bool" THEN Return(Bool(Truthy(value)))
    ELSE int(value)

\* Config.get(key, cast, default), lines 48-70.
Config_get(cfg, os_environ, key, cast, default) ==
    LET full_key == cfg.env_prefix \o key
        environ == environ_of(cfg, os_environ)
    IN IF full_key \in DOMAIN environ THEN _perform_cast(environ[full_key], cast)
       ELSE IF key \in DOMAIN cfg.store THEN _perform_cast(cfg.store[key], cast)
       ELSE IF default /= None THEN _perform_cast(default, cast)
       ELSE Return(default)

\* Config.require(key, cast), lines 72-76.
Config_require(cfg, os_environ, key, cast) ==
    LET value == Config_get(cfg, os_environ, key, cast, None)
    IN IF value.raised = "no" /\ value.value = None THEN Raise("RuntimeError") ELSE value

NoConfigCall == [op |-> "none", result |-> None]

InitConfig ==
    /\ az = None /\ lm = None /\ jar = Absent
    /\ backend \in [environ : Environs, env_prefix : Prefixes,
                    store : Stores]
    /\ session \in ProcessEnvirons
    /\ req \in [key : ConfigKeys, cast : Casts, default : {None, Str("0")}]
    /\ resp = FreshResponse
    /\ last = NoConfigCall
    /\ prev = NoPrevious
    /\ n_req = 1
    /\ n_ops = 0

ConfigGet ==
    /\ last.op = "none"
    /\ Call([session |-> session, req |-> req, resp |-> resp,
             last |-> [op |-> "Config.get",
                       result |-> Config_get(backend, session, req.key, req.cast,
                                             req.default)]])

ConfigRequire ==
    /\ last.op = "none" /\ req.default = None
    /\ Call([session |-> session, req |-> req, resp |-> resp,
             last |-> [op |-> "Config.require",
                       result |-> Config_require(backend, session, req.key, req.cast)]])

NextConfig == ConfigGet \/ ConfigRequire

SpecConfig == InitConfig /\ [][NextConfig]_vars

\* ------------------------------------------------------------------------
\* AlchemicalMiddleware
\* ------------------------------------------------------------------------
\* What the downstream application does with a scope: it calls the
\* get_session it finds in the scope's state gets times, then returns
\* ("return"), raises an exception of a subclass of Exception ("Exception")
\* or one that is a BaseException only, such as asyncio.CancelledError
\* ("BaseException"). fails names the operations of the database session
\* that raise when awaited.
MaxGets == 2

AppOutcomes == {"return", "Exception", "BaseException"}

SessionFailures == {{}, {"commit"}, {"rollback"}}

Event(op, id) == [op |-> op, id |-> id]

\* Lines 160-165: get_session() creates the session on its first call.
\* st holds the closure's session (None or an id), the sessions the database
\* has created, the log of session operations and what the calls returned.
get_session(st) ==
    IF st.session = None
    THEN [st EXCEPT !.session = PyInt(st.created + 1), !.created = st.created + 1,
                    !.log = Append(st.log, Event("create", st.created + 1)),
                    !.got = Append(st.got, PyInt(st.created + 1))]
    ELSE [st EXCEPT !.got = Append(st.got, st.session)]

\* Line 171: await self.app(scope, receive, send), the application calling
\* get_session k times.
RECURSIVE app_called(_, _)
app_called(st, k) == IF k = 0 THEN st ELSE app_called(get_session(st), k - 1)

\* Lines 172-175: except Exception: if session: await session.rollback();
\* raise. exc is the exception in flight ("none" when there is none).
except_Exception(st, raised, fails) ==
    IF raised /= "Exception" THEN [st EXCEPT !.exc = IF raised = "return" THEN "none" ELSE raised]
    ELSE IF st.session = None THEN [st EXCEPT !.exc = raised]
    ELSE [st EXCEPT !.log = Append(st.log, Event("rollback", st.session.n)),
                    !.exc = IF "rollback" \in fails THEN "rollback raised" ELSE raised]

\* Lines 176-180: finally: if session: if self.autocommit: await
\* session.commit(); await session.close().
finally(st, autocommit, fails) ==
    IF st.session = None THEN st
    ELSE IF ~autocommit
    THEN [st EXCEPT !.log = Append(st.log, Event("close", st.session.n))]
    ELSE IF "commit" \in fails
    THEN [st EXCEPT !.log = Append(st.log, Event("commit", st.session.n)),
                    !.exc = "commit raised"]
    ELSE [st EXCEPT !.log = st.log \o <<Event("commit", st.session.n),
                                        Event("close", st.session.n)>>]

NoAlchemicalCall ==
    [op |-> "none", session |-> None, created |-> 0, log |-> <<>>, got |-> <<>>,
     exc |-> "none", app_calls |-> 0, db_in_state |-> FALSE]

\* AlchemicalMiddleware.__call__(scope, receive, send) for a database that
\* has created `created` sessions so far.
AlchemicalMiddleware_call(mw, created, scope) ==
    LET st0 == [NoAlchemicalCall EXCEPT !.op = "AlchemicalMiddleware", !.created = created,
                                        !.app_calls = 1]
    IN IF scope.type /= "http"
       THEN [st0 EXCEPT !.exc = IF scope.raises = "return" THEN "none" ELSE scope.raises]
       ELSE finally(except_Exception(app_called([st0 EXCEPT !.db_in_state = TRUE], scope.gets),
                                     scope.raises, scope.fails),
                    mw.autocommit, scope.fails)

AlchemicalScopes ==
    [type : {"http"}, gets : 0..MaxGets, raises : AppOutcomes, fails : SessionFailures]
    \cup [type : {"websocket", "lifespan"}, gets : {0}, raises : AppOutcomes, fails : {{}}]

InitAlchemical ==
    /\ az = None /\ lm = None /\ jar = Absent
    /\ backend \in [autocommit : BOOLEAN]
    /\ session = [created |-> 0]
    /\ req \in AlchemicalScopes
    /\ resp = FreshResponse
    /\ last = NoAlchemicalCall
    /\ prev = NoPrevious
    /\ n_req = 1
    /\ n_ops = 0

\* The server hands the scope to the middleware.
AlchemicalRequest ==
    /\ last.op = "none"
    /\ LET result == AlchemicalMiddleware_call(backend, session.created, req)
       IN Call([session |-> [created |-> result.created], req |-> req, resp |-> resp,
                last |-> result])

\* The next scope arrives at the same middleware.
NextAlchemicalScope ==
    /\ n_req < MaxRequests
    /\ last.op /= "none" /\ n_ops < MaxOps
    /\ n_req' = n_req + 1
    /\ req' \in {sc \in AlchemicalScopes : sc.fails = req.fails \/ sc.type /= "http"}
    /\ prev' = [call |-> last, session_sent |-> TRUE]
    /\ last' = NoAlchemicalCall
    /\ UNCHANGED <<az, backend, lm, session, jar, resp, n_ops>>

NextAlchemical == AlchemicalRequest \/ NextAlchemicalScope

SpecAlchemical == InitAlchemical /\ [][NextAlchemical]_vars

\* ------------------------------------------------------------------------
\* A Digest challenge and the request that answers it
\* ------------------------------------------------------------------------
\* Methods and URIs of the answering request: "/" and "/x?a=b".
DigestMethods == {"GET", "POST"}

DigestUris == {<<Str("/")>>, <<Str("/x?a"), Equals, Str("b")>>}

\* Where the client takes the nonce and the opaque of its answer from: the
\* challenge, a challenge of another session, or nowhere (it omits the
\* parameter).
AnswerSources ==
    {<<"challenge", "challenge">>, <<"other", "challenge">>, <<"challenge", "other">>,
     <<"omitted", "challenge">>, <<"challenge", "omitted">>}

taken(source, challenged) ==
    CASE source = "challenge" -> challenged.x
      [] source = "other" -> token_hex(0).x
      [] source = "omitted" -> <<>>

\* The Authorization header with which a client holding a password for alice
\* answers a challenge.
Answer(challenge, password, method, uri, sources) ==
    Authorization(<<Str("Digest"), Space>>
                  \o Params(Credential(challenge.algorithm, "alice", password, method, uri,
                                       taken(sources[1], challenge.nonce),
                                       taken(sources[2], challenge.opaque), "auth")))

NoDigestSession == [auth_nonce |-> Absent, auth_opaque |-> Absent]

InitDigest ==
    /\ az = None /\ lm = None /\ jar = Absent
    /\ backend \in {b \in DigestAuth : b.verify = "table"}
    /\ session = NoDigestSession
    /\ req = BackendRequest(NoHeaders)
    /\ resp = FreshResponse
    /\ last = NoBackendCall
    /\ prev = NoPrevious
    /\ n_req = 1
    /\ n_ops = 0

\* The request reaches a view decorated with login_required.
DigestView ==
    /\ last.op = "none"
    /\ Call(Backend_login_required(backend, session, req, resp, None, None, n_ops + 1))

\* The client got a challenge and answers it with its next request, in the
\* session the challenge was stored in or in a new one.
AnswerChallenge ==
    /\ n_req < MaxRequests
    /\ last.handlers = 1 /\ resp.www_authenticate /= Absent
    /\ \E password \in {"pw", "bad"}, method \in DigestMethods, uri \in DigestUris,
          sources \in AnswerSources, session_sent \in BOOLEAN :
           /\ req' = [headers |-> Answer(resp.www_authenticate, password, method, uri, sources),
                      method |-> method, state_user |-> Absent]
           /\ session' = IF session_sent THEN session ELSE NoDigestSession
           /\ prev' = [call |-> last, session_sent |-> session_sent,
                       challenge |-> resp.www_authenticate]
    /\ n_req' = n_req + 1
    /\ resp' = FreshResponse
    /\ last' = NoBackendCall
    /\ UNCHANGED <<az, backend, lm, jar, n_ops>>

NextDigest == DigestView \/ AnswerChallenge

SpecDigest == InitDigest /\ [][NextDigest]_vars

\* ------------------------------------------------------------------------
\* An accepted Digest credential sent again
\* ------------------------------------------------------------------------
\* Requests of one client in one session.
MaxReplays == 4

\* role= of the views the client asks for: alice is an editor and a user.
ReplayRoles == {None, Str("admin")}

\* The client keeps no answer; its answer was never accepted and no
\* challenge followed an acceptance.
NoAnswerKept == [call |-> None, session_sent |-> TRUE, accepted |-> FALSE, replaced |-> FALSE]

InitReplay ==
    /\ az = None /\ lm = None
    /\ jar = Absent
    /\ backend \in {b \in DigestAuth : b.verify = "table"}
    /\ session = NoDigestSession
    /\ req = BackendRequest(NoHeaders)
    /\ resp = FreshResponse
    /\ last = NoBackendCall
    /\ prev = NoAnswerKept
    /\ n_req = 1
    /\ n_ops = 0

\* The client computes its answer to the challenge it was sent and keeps
\* the header.
KeepAnswer ==
    /\ last.handlers = 1 /\ resp.www_authenticate /= Absent
    /\ \E method \in DigestMethods :
           /\ jar' = [headers |-> Answer(resp.www_authenticate, "pw", method, <<Str("/")>>,
                                         <<"challenge", "challenge">>),
                      method |-> method]
           /\ jar' /= jar
    /\ prev' = NoAnswerKept
    /\ UNCHANGED <<az, backend, lm, session, req, resp, last, n_req, n_ops>>

\* The client sends a request in its session, without credentials or with
\* the header it keeps, to a view decorated with login_required(role=role).
DigestRequest ==
    /\ n_ops < MaxReplays
    /\ \E headers \in {NoHeaders} \cup (IF jar = Absent THEN {} ELSE {jar.headers}),
          method \in DigestMethods, role \in ReplayRoles :
           LET r == [headers |-> headers, method |-> method, state_user |-> Absent]
               result == Backend_login_required(backend, session, r, FreshResponse, role,
                                                None, n_ops + 1)
               kept == jar /= Absent /\ headers = jar.headers /\ method = jar.method
               accepted == kept /\ result.last.authenticated = "no"
               challenged == result.resp.www_authenticate /= Absent
           IN /\ session' = result.session
              /\ req' = result.req
              /\ resp' = result.resp
              /\ last' = result.last
              /\ prev' = [prev EXCEPT !.accepted = @ \/ accepted,
                                      !.replaced = @ \/ ((prev.accepted \/ accepted)
                                                         /\ challenged)]
    /\ n_ops' = n_ops + 1
    /\ UNCHANGED <<az, backend, lm, jar, n_req>>

NextReplay == KeepAnswer \/ DigestRequest

SpecReplay == InitReplay /\ [][NextReplay]_vars

\* ------------------------------------------------------------------------
\* MultiAuth
\* ------------------------------------------------------------------------
\* MultiAuth(*backends).  "assert backends, ..." raises AssertionError while
\* the interpreter executes assert statements (__debug__); under python -O
\* it executes none and the instance is built.
MultiAuth(backends, debug) ==
    IF debug /\ backends = <<>> THEN Raise("AssertionError")
    ELSE Return([t |-> "MultiAuth", backends |-> backends])

\* headers.get(backend.header, "")
headers_get(headers, name) == IF name \in DOMAIN headers THEN headers[name] ELSE <<>>

\* MultiAuth.is_compatible(headers, backend): "scheme, _ = ....split(None, 1)"
\* raises ValueError unless the header holds two words.
is_compatible(headers, b) ==
    LET parts == split_maxsplit(headers_get(headers, b.header))
    IN IF Len(parts) /= 2 THEN FALSE ELSE parts[1] = <<Str(b.scheme)>>

\* Lines 321-325: the index of the backend the loop over self.backends, from
\* the i-th on, selects; the first backend when it selects none.
RECURSIVE selected(_, _, _)
selected(backends, i, headers) ==
    IF i > Len(backends) THEN 1
    ELSE IF is_compatible(headers, backends[i]) THEN i
    ELSE selected(backends, i + 1, headers)

\* Line 326: the selected backend's login_required(role=, optional=)(f),
\* called with the request.
dispatched(result, i) == [result EXCEPT !.last.backend = i]

\* The wrapper MultiAuth.login_required(role=role, optional=optional) puts
\* around a view: self.backends[0] of an empty tuple raises IndexError.
MultiAuth_login_required(multi, sess, r, rs, role, optional, k) ==
    IF multi.backends = <<>>
    THEN [session |-> sess, req |-> r, resp |-> rs,
          last |-> [NoBackendCall EXCEPT !.op = "MultiAuth.login_required", !.role = role,
                                         !.optional = optional, !.outcome = "IndexError"]]
    ELSE dispatched(
             Backend_login_required(multi.backends[selected(multi.backends, 1, r.headers)],
                                    sess, r, rs, role, optional, k),
             selected(multi.backends, 1, r.headers))

\* Backends handed to MultiAuth.
MaxBackends == 2

\* A TokenAuth, a TokenAuth reading the header X-API-Key, a BasicAuth and a
\* DigestAuth, each with its callbacks registered.
MultiBackends ==
    {[scheme |-> scheme_header[1], realm |-> AuthenticationRequired,
      header |-> scheme_header[2], verify |-> "table", get_user_roles |-> "set",
      error_handler |-> "default", use_ha1_pw |-> FALSE, algorithm |-> "MD5",
      qop |-> IF scheme_header[1] = "Digest" THEN {"auth"} ELSE {}] :
        scheme_header \in {<<"Bearer", "Authorization">>, <<"Bearer", "X-API-Key">>,
                           <<"Basic", "Authorization">>, <<"Digest", "Authorization">>}}

\* The Authorization header of the requests: an empty one, a bare scheme, a
\* token, the scheme in lower case, Basic and Digest credentials, a scheme
\* no backend has.
MultiAuthorizations ==
    {<<>>, <<Str("Bearer")>>, <<Str("Bearer"), Space, Str("t-alice")>>,
     <<Str("Bearer"), Space, Str("t-unknown")>>, <<Str("bearer"), Space, Str("t-alice")>>,
     <<Str("Basic"), Space, b64encode(<<Str("alice"), Colon, Str("pw")>>)>>,
     <<Str("Basic"), Space, b64encode(<<Str("alice"), Colon, Str("bad")>>)>>,
     <<Str("Digest"), Space>> \o Params(DigestParams("MD5", "alice", "pw", "n1", "o1", "auth")),
     <<Str("Other"), Space, Str("t-alice")>>}

\* The headers of the requests: Authorization and X-API-Key, each there or
\* not.
MultiHeaders ==
    {a @@ x : a \in {NoHeaders} \cup {Authorization(v) : v \in MultiAuthorizations},
              x \in {NoHeaders, [h \in {"X-API-Key"} |-> <<Str("Bearer"), Space, Str("t-bob")>>]}}

InitMulti ==
    /\ az = None /\ lm = None /\ jar = Absent
    /\ \E backends \in SeqsUpTo(MultiBackends, MaxBackends), debug \in BOOLEAN :
           backend = [t |-> "arguments", backends |-> backends, debug |-> debug]
    /\ \E headers \in MultiHeaders : req = BackendRequest(headers)
    /\ session = [auth_nonce |-> Name("n1"), auth_opaque |-> Name("o1")]
    /\ resp = FreshResponse
    /\ last = NoBackendCall
    /\ prev = NoPrevious
    /\ n_req = 1
    /\ n_ops = MaxOps - 1

\* The application is set up: auth = MultiAuth(*backends).
ConstructMultiAuth ==
    /\ backend.t = "arguments"
    /\ backend' = LET made == MultiAuth(backend.backends, backend.debug)
                  IN IF made.raised = "no" THEN made.value
                     ELSE [t |-> "raised", e |-> made.raised, backends |-> backend.backends]
    /\ UNCHANGED <<az, lm, session, jar, req, resp, last, prev, n_req, n_ops>>

\* A request reaches a view decorated with auth.login_required(role=).
MultiView ==
    /\ backend.t = "MultiAuth"
    /\ \E role \in {None, Str("admin")} :
           Call(MultiAuth_login_required(backend, session, req, resp, role, None, n_ops + 1))

NextMulti == ConstructMultiAuth \/ MultiView

SpecMulti == InitMulti /\ [][NextMulti]_vars

\* ------------------------------------------------------------------------
\* The two authorizers applied to every role specification and every
\* callback result.
\* ------------------------------------------------------------------------
\* The LoginManager and its request, untouched while the authorizers run.
IdleSession ==
    /\ backend = None /\ lm = None /\ session = None /\ jar = None /\ req = None /\ resp = None
    /\ last = NoCall /\ prev = NoPrevious /\ n_req = 0 /\ n_ops = 0

InitAuthorize ==
    /\ IdleSession
    /\ \E role \in RoleSpecs, provided \in ProvidedRoles :
           az = [fn |-> "none", role |-> role, provided |-> provided, result |-> "pending"]

CallAuthorize ==
    /\ az.fn = "none"
    /\ az' = [az EXCEPT !.fn = "authorize", !.result = authorize(az.role, az.provided)]
    /\ UNCHANGED sessVars

Call_authorize ==
    /\ az.fn = "none"
    /\ az' = [az EXCEPT !.fn = "_authorize", !.result = _authorize(az.role, az.provided)]
    /\ UNCHANGED sessVars

NextAuthorize == CallAuthorize \/ Call_authorize

SpecAuthorize == InitAuthorize /\ [][NextAuthorize]_vars

\* ------------------------------------------------------------------------
\* Backend.login_required
\* ------------------------------------------------------------------------
\* C1: for every stateless backend, request and role, the view wrapped by
\* Backend.login_required is invoked iff authenticate yields a principal and
\* authorize(role, principal) is truthy or optional is true; otherwise the
\* registered error handler is invoked exactly once and the view is not,
\* with status 401 when there is no principal and 403 when only the role
\* check failed; when the view is invoked req.state.user is the principal.
C1_BackendLoginRequired ==
    last.op = "Backend.login_required" =>
        LET principal == last.authenticated = "no"
            authorized ==
                authorize(last.role, get_user_roles_callback(backend, last.principal)) = "True"
        IN /\ (last.views = 1) <=> (principal /\ (authorized \/ last.optional = Bool(TRUE)))
           /\ last.views = 1 => req.state_user = last.principal /\ last.handlers = 0
           /\ last.views = 0 =>
                /\ last.outcome = "error_handler"
                /\ last.handlers = 1
                /\ last.status_code = IF principal THEN 403 ELSE 401

\* C2: an authentication failure never leaves Backend.login_required as an
\* exception: for every request whose credential is missing, malformed or
\* invalid (a Digest parameter list that does not parse included) the
\* decorated handler raises nothing and ends in the 401 error handler.
C2_AuthenticationFailuresNeverRaise ==
    (last.op = "Backend.login_required" /\ last.authenticated /= "no") =>
        /\ last.outcome = "error_handler"
        /\ last.status_code = 401
        /\ last.handlers = 1
        /\ last.views = 0

\* ------------------------------------------------------------------------
\* Reference semantics of a role specification: the AND-groups it lists and
\* the set a callback result stands for.
\* ------------------------------------------------------------------------
GroupsOf(role) ==
    IF role.t /= "list" THEN {{role.s}}
    ELSE {IF role.l[i].t = "str" THEN {role.l[i].s} ELSE Range(role.l[i].l) :
            i \in DOMAIN role.l}

RoleSetOf(provided) ==
    IF provided.t = "None" THEN {}
    ELSE IF provided.t = "str" THEN {provided.s}
    ELSE Range(provided.l)

Allowed(role, provided) ==
    role.t = "None" \/ \E g \in GroupsOf(role) : g \subseteq RoleSetOf(provided)

\* C4: Backend.authorize(role, user) returns a truthy value iff role is None
\* or some group of the role specification is a subset of the user's role
\* set (None -> empty set, a string -> singleton, a list -> its elements),
\* and it never raises, for every role specification and callback result.
C4_AuthorizeOrOfAndGroups ==
    (az.fn = "authorize" /\ az.provided.t \in {"None", "str", "list"})
        => /\ az.result \in {"True", "None"}
           /\ (az.result = "True") <=> Allowed(az.role, az.provided)

\* C5: LoginManager._authorize returns True iff required_role is None or
\* some group of the requirement is a subset of the roles the role loader
\* returned, and False otherwise; for roles {editor, user}: [admin, editor]
\* and [[editor, user]] are allowed, [[admin, editor]] is denied.
C5_SessionAuthorizeOrOfAndGroups ==
    (az.fn = "_authorize" /\ az.provided.t \in {"None", "str", "list"})
        => /\ az.result \in {"True", "False"}
           /\ (az.result = "True") <=> Allowed(az.role, az.provided)
           /\ az.provided = List(<<"editor", "user">>) =>
                /\ az.role = List(<<Str("admin"), Str("editor")>>) => az.result = "True"
                /\ az.role = List(<<List(<<"editor", "user">>)>>) => az.result = "True"
                /\ az.role = List(<<List(<<"admin", "editor">>)>>) => az.result = "False"

\* C5 witness: the AND-group [admin, editor] was refused to a user holding
\* editor and user.
C5_Witness ==
    /\ az.fn = "_authorize"
    /\ az.role = List(<<List(<<"admin", "editor">>)>>)
    /\ az.provided = List(<<"editor", "user">>)
    /\ az.result = "False"

\* ------------------------------------------------------------------------
\* LoginManager.login_required
\* ------------------------------------------------------------------------
\* A role requirement is given: role names something to require.
RoleGiven(role) == Truthy(role)

ConfiguredHandler == IF lm.on_failure = "custom" THEN "custom" ELSE "default_failure"

HostNamed(u) == urlparse_netloc(u).netloc

NextUsable(next) ==
    /\ next.t = "url"
    /\ ~startswith(next.u, <<"/", "/">>)
    /\ HostNamed(next.u) \in {<<>>, OwnHost}

\* C6: the redirect issued by LoginManager.login goes to the next parameter
\* iff it is present, does not start with "//" and names no host or the
\* request's own host, and to redirect_url in every other case; the status
\* is 302.
C6_LoginRedirectIsSafe ==
    (last.op = "login" /\ last.outcome /= "TypeError" /\ last.outcome /= "HookError") =>
        /\ last.outcome = "ok"
        /\ resp.status_code = FOUND
        /\ resp.location = IF NextUsable(req.next) THEN req.next ELSE last.redirect_url

\* C7: default_failure with UNAUTHENTICATED and a login_url answers 302 with
\* Location login_url, "&" if login_url holds "?" else "?", "next=", the
\* quoted request path.
C7_LoginRedirectCarriesNext ==
    (last.op = "default_failure" /\ last.reason = "UNAUTHENTICATED" /\ Truthy(lm.login_url)) =>
        /\ last.outcome = "failure"
        /\ resp.status_code = FOUND
        /\ resp.location =
             Url(lm.login_url.u
                 \o (IF "?" \in Range(lm.login_url.u) THEN <<"&">> ELSE <<"?">>)
                 \o <<"n", "e", "x", "t", "=">> \o quote(req.path))

\* C8: in default_failure UNAUTHORIZED gives 403 and never a redirect,
\* whatever login_url is; UNAUTHENTICATED gives a 302 redirect when a
\* login_url is configured and a bare 401 when none is; a resolved user
\* whose roles do not satisfy the role of login_required gets 403.
C8_FailureReasonsDiffer ==
    (last.handler = "default_failure" /\ last.outcome = "failure") =>
        /\ last.reason = "UNAUTHORIZED" =>
             resp.status_code = FORBIDDEN /\ resp.location = None
        /\ last.reason = "UNAUTHENTICATED" =>
             IF Truthy(lm.login_url)
             THEN resp.status_code = FOUND /\ resp.location.t = "url"
             ELSE resp.status_code = UNAUTHORIZED401 /\ resp.location = None
        /\ (last.op = "login_required" /\ Truthy(last.user)) =>
             resp.status_code = FORBIDDEN /\ resp.location = None

\* C8 witness: with a login_url configured, a resolved user lacking the role
\* got 403 and no Location.
C8_Witness ==
    /\ last.op = "login_required"
    /\ last.handler = "default_failure"
    /\ last.user = Alice
    /\ Truthy(lm.login_url)
    /\ resp.status_code = FORBIDDEN
    /\ resp.location = None

\* ------------------------------------------------------------------------
\* login and logout
\* ------------------------------------------------------------------------
\* C9: login succeeds for every user that carries the id attribute or key:
\* afterwards session['_user_id'] is str(id), req.state.user is the user,
\* the response is a 302 redirect and the remember-me cookie (httponly,
\* samesite=lax, path /) is set iff remember_me; without an id login raises
\* TypeError.
C9_LoginSucceedsWithId ==
    (last.op = "login" /\ last.outcome /= "HookError") =>
        IF last.user.id.t = "absent" THEN last.outcome = "TypeError"
        ELSE /\ last.outcome = "ok"
             /\ session.uid = str(last.user.id)
             /\ req.state_user = last.user
             /\ resp.status_code = FOUND
             /\ last.remember_me =>
                  /\ resp.cookie.t = "set-cookie"
                  /\ resp.cookie.value = sign(str(last.user.id))
                  /\ resp.cookie.httponly
                  /\ resp.cookie.samesite = "lax"
                  /\ resp.cookie.path = "/"

\* C10: after logout returns the session holds no '_user_id', req.state.user
\* is None and the response deletes the remember-me cookie (max-age 0,
\* path /); the on_logout hooks run iff a user was on the request state when
\* logout was called.
C10_LogoutClears ==
    [][last'.op = "logout" =>
          /\ (last'.hooks > 0) <=> (Truthy(req.state_user) /\ lm.n_logout_hooks > 0)
          /\ last'.outcome = "ok" =>
               /\ session'.uid = Absent
               /\ req'.state_user = None
               /\ resp'.cookie.t = "set-cookie"
               /\ resp'.cookie.max_age = 0
               /\ resp'.cookie.path = "/"]_vars

\* C10 witness: logout of a logged-in request with a stored id ran the
\* hooks and returned.
C10_Witness ==
    /\ last.op = "logout"
    /\ last.outcome = "ok"
    /\ last.hooks > 0
    /\ Truthy(last.user)
    /\ session.uid = Absent
    /\ n_ops = 2

\* ------------------------------------------------------------------------
\* Identity between login and logout
\* ------------------------------------------------------------------------
\* The id login stored for the user of the request before.
LoggedInId == str(user_id_of(prev.call.user))

\* The request before ended with a login that succeeded, and this request
\* carries what it left: the session, or only the remember-me cookie.
AfterLogin ==
    /\ prev.call /= None
    /\ prev.call.op = "login" /\ prev.call.outcome = "ok"
    /\ prev.session_sent \/ prev.call.remember_me

\* The request before ended with a logout that returned.
AfterLogout ==
    /\ prev.call /= None
    /\ prev.call.op = "logout" /\ prev.call.outcome = "ok"

\* C11: while a user_loader is registered, the first resolution of the user
\* in the request after a successful login (the request carrying the session
\* login left, or only the remember-me cookie login set) yields
\* user_loader(id) and leaves the id in the session; the first resolution in
\* the request after a logout yields no user, and a login_required view
\* reports UNAUTHENTICATED.
C11_IdentityPersists ==
    [][(lm.user_loader = "table" /\ last.op = "none"
            /\ last'.op \in {"_load_current_user", "login_required"})
       => /\ AfterLogin
             => /\ last'.user = user_loader(LoggedInId)
                /\ Truthy(user_loader(LoggedInId)) => session'.uid = LoggedInId
          /\ AfterLogout
             => /\ last'.user = None
                /\ last'.op = "login_required"
                   => last'.outcome = "failure" /\ last'.reason = "UNAUTHENTICATED"]_vars

\* Alice logged in with remember_me, the session was lost, and the cookie
\* alone resolved her and put her id back into the session.
C11_Witness ==
    /\ AfterLogin /\ ~prev.session_sent
    /\ prev.call.user = Alice
    /\ last.op = "_load_current_user" /\ last.user = Alice
    /\ session.uid = Str("123")

\* ------------------------------------------------------------------------
\* The remember-me cookie
\* ------------------------------------------------------------------------
\* The ids X for which the cookie of the request is what login produced for
\* X at a time not ahead of Now and at most remember_me_duration ago.
ProducedByLogin ==
    {id \in CookieIds :
        \E ts \in CookieTimes :
            /\ req.cookie = TimestampSigner_sign(secret_key, remember_me_cookie_name, id, ts)
            /\ 0 <= Now - ts /\ Now - ts <= remember_me_duration}

\* C13: _unsign_cookie yields X for the cookie login produced for the id X,
\* presented within remember_me_duration under the same secret and cookie
\* name, and None (it does not raise) for every other value: no cookie, a
\* text never signed, a changed id or timestamp, another key or salt, an
\* expired signature.
C13_RememberMeRoundTrip ==
    last.op = "_unsign_cookie"
    => IF ProducedByLogin /= {}
       THEN \E id \in ProducedByLogin : last.user = Str(id)
       ELSE last.user = None

\* A cookie login signed exactly remember_me_duration ago is still accepted.
C13_Witness ==
    /\ last.op = "_unsign_cookie"
    /\ req.cookie = TimestampSigner_sign(secret_key, remember_me_cookie_name, "7", 1)
    /\ last.user = Str("7")

\* ------------------------------------------------------------------------
\* Hooks
\* ------------------------------------------------------------------------
\* The hooks a call had to run: those registered with on_login for a login
\* that got a user id, those registered with on_logout for a logout that
\* found a user.
HooksDue ==
    IF last.op = "login" THEN (IF last.outcome = "TypeError" THEN 0 ELSE lm.n_login_hooks)
    ELSE IF Truthy(last.user) THEN lm.n_logout_hooks ELSE 0

\* C12: in every login and logout the hooks are called in the order of their
\* registration, each with the user and each returned before the next is
\* called; a hook that raises is the last one called and its exception is
\* the outcome of the call, and when none raises all registered hooks ran.
C12_HooksInRegistrationOrder ==
    last.op \in {"login", "logout"}
    => LET log == last.hook_log
       IN /\ \A j \in 1..Len(log) :
                 /\ log[j].hook = (j + 1) \div 2
                 /\ log[j].user = last.user
                 /\ log[j].ev = IF j % 2 = 1 THEN "called"
                                ELSE IF j = Len(log) /\ last.outcome = "HookError"
                                THEN "raised" ELSE "returned"
          /\ Len(log) % 2 = 0
          /\ last.outcome /= "HookError" => Len(log) = 2 * HooksDue
          /\ last.outcome = "HookError" => Len(log) \in 2..(2 * HooksDue)

\* The first hook returned, the second raised, and login raised with it.
C12_Witness ==
    /\ last.op = "login" /\ last.outcome = "HookError"
    /\ Len(last.hook_log) = 4
    /\ last.hook_log[2].ev = "returned" /\ last.hook_log[4].ev = "raised"

\* ------------------------------------------------------------------------
\* MultiAuth
\* ------------------------------------------------------------------------
\* The header the backend b reads is there and starts with the scheme of b,
\* whitespace and a credential.
CarriesScheme(b, headers) ==
    /\ b.header \in DOMAIN headers
    /\ LET x == headers[b.header]
       IN /\ Len(x) >= 3
          /\ x[1] = Str(b.scheme) /\ x[2] = Space
          /\ \E j \in 3..Len(x) : x[j] /= Space

\* The backend the claim has a request dispatched to: the first one of the
\* list whose header carries its scheme, the first of the list when there is
\* none.
FirstCompatible(backends, headers) ==
    IF \E i \in DOMAIN backends : CarriesScheme(backends[i], headers)
    THEN CHOOSE i \in DOMAIN backends :
             /\ CarriesScheme(backends[i], headers)
             /\ \A j \in 1..(i - 1) : ~CarriesScheme(backends[j], headers)
    ELSE 1

\* C14: every request to a view protected by MultiAuth.login_required is
\* handed to the first backend in list order whose configured header starts
\* with its scheme, whitespace and a credential, to the first backend when
\* no backend is compatible; the request, response, session and outcome are
\* those of that backend's own login_required with the same role and
\* optional.
C14_MultiAuthDispatch ==
    [][(backend.t = "MultiAuth" /\ last.op = "none" /\ last'.op /= "none")
       => /\ last'.outcome /= "IndexError"
          /\ last'.backend = FirstCompatible(backend.backends, req.headers)
          /\ [session |-> session', req |-> req', resp |-> resp', last |-> last']
                = dispatched(Backend_login_required(backend.backends[last'.backend],
                                                    session, req, resp, last'.role,
                                                    last'.optional, n_ops + 1),
                             last'.backend)]_vars

\* C15: MultiAuth() with no backend raises RuntimeError or ValueError, and
\* every MultiAuth instance holds at least one backend.
C15_EmptyMultiAuthRejected ==
    /\ backend.t = "raised" => backend.e \in {"RuntimeError", "ValueError"}
    /\ backend.t = "MultiAuth" => backend.backends /= <<>>
    /\ backend.t \in {"raised", "MultiAuth"}
       => (backend.t = "raised" <=> backend.backends = <<>>)

\* ------------------------------------------------------------------------
\* BasicAuth
\* ------------------------------------------------------------------------
\* (username, password) pairs a client may hold: accepted by the registered
\* callback or not, with a colon in the password, with a colon in the
\* username.
BasicPairs ==
    {<<<<Str("alice")>>, <<Str("pw")>>>>, <<<<Str("alice")>>, <<Str("bad")>>>>,
     <<<<Str("bob")>>, <<Str("pw")>>>>, <<<<Str("carol")>>, <<Str("p"), Colon, Str("w")>>>>,
     <<<<Str("dave"), Colon, Str("x")>>, <<Str("pw")>>>>}

\* The request carries "Authorization: Basic base64(username:password)".
Presented(pair) ==
    req.headers
      = Authorization(<<Str("Basic"), Space, b64encode(pair[1] \o <<Colon>> \o pair[2])>>)

\* A BasicAuth view without role was requested.
BasicViewCalled ==
    /\ backend.scheme = "Basic"
    /\ last.op = "Backend.login_required" /\ last.role = None

\* The view ran for the principal the callback returns for the pair.
RanFor(pair) ==
    /\ last.outcome = "view" /\ last.views = 1 /\ last.handlers = 0
    /\ req.state_user = verify_password_callback(backend, pair[1], pair[2])

\* The 401 error handler ran and the response carries the given challenge.
Refused(challenge) ==
    /\ last.outcome = "error_handler" /\ last.handlers = 1 /\ last.views = 0
    /\ last.status_code = 401 /\ resp.status_code = 401
    /\ resp.www_authenticate = challenge

BasicChallenge == [scheme |-> "Basic", realm |-> backend.realm]

HandlerAlone == registered_handler(backend, FreshResponse, last.status_code)

\* C17: every response that went through the registered error handler of a
\* backend has a status other than 200, 401 when the handler left it at 200,
\* and carries a WWW-Authenticate header: the one the handler set, else the
\* challenge auth_header computes (for Digest with the nonce and opaque now
\* stored in the session).
C17_ErrorResponseChallenges ==
    (last.op = "Backend.login_required" /\ last.handlers = 1)
    => /\ resp.status_code /= 200
       /\ HandlerAlone.status_code = 200 => resp.status_code = 401
       /\ resp.www_authenticate /= Absent
       /\ resp.www_authenticate
            = IF HandlerAlone.www_authenticate.t /= "absent"
              THEN HandlerAlone.www_authenticate
              ELSE auth_header(backend, session, n_ops).header
       /\ (backend.scheme = "Digest" /\ HandlerAlone.www_authenticate.t = "absent")
          => /\ resp.www_authenticate.nonce = session.auth_nonce
             /\ resp.www_authenticate.opaque = session.auth_opaque

\* A handler that left the response alone was called for a failed role
\* check: the status became 401 and the challenge was added.
C17_Witness ==
    /\ last.op = "Backend.login_required" /\ last.handlers = 1
    /\ backend.error_handler = "silent" /\ last.status_code = 403
    /\ resp.status_code = 401
    /\ resp.www_authenticate = [scheme |-> backend.scheme, realm |-> backend.realm]

\* ------------------------------------------------------------------------
\* Digest challenge and response
\* ------------------------------------------------------------------------
\* The view was called for a request that answers, in the same session, the
\* challenge of the request before.
ChallengeAnswered ==
    /\ prev.call /= None /\ prev.session_sent
    /\ last.op = "Backend.login_required"

\* C18: for every method and URI, the request that answers a challenge in
\* the same session with the nonce and opaque of the challenge and the
\* response computed from the right password is authenticated and the view
\* runs with req.state.user set to the username; computed from a wrong
\* password, it ends in the 401 error handler.
C18_DigestChallengeResponse ==
    ChallengeAnswered
    => \A uri \in DigestUris :
           /\ req.headers = Answer(prev.challenge, "pw", req.method, uri,
                                   <<"challenge", "challenge">>)
              => /\ last.outcome = "view" /\ last.views = 1
                 /\ req.state_user = Name("alice")
           /\ req.headers = Answer(prev.challenge, "bad", req.method, uri,
                                   <<"challenge", "challenge">>)
              => /\ last.outcome = "error_handler" /\ last.status_code = 401
                 /\ resp.status_code = 401

\* The value the Digest credential of the request gives for a parameter.
CredentialParameter(key) ==
    LET credentials == get_credentials(backend, req)
        parsed == IF credentials.raised /= "no" THEN credentials
                  ELSE _parse_credentials(credentials.value.x)
    IN IF parsed.raised /= "no" THEN None ELSE get(parsed.value, key)

\* C19: with the default nonce and opaque callbacks, a DigestAuth request is
\* authenticated only if its session stores a nonce and an opaque and the
\* credential carries both of them; whatever the response, a credential with
\* a nonce or opaque of another session, without one of them, or arriving in
\* a session that stores none, is not.
C19_NonceAndOpaqueOfTheSession ==
    [][(backend.scheme = "Digest" /\ last.op = "none"
            /\ last'.op = "Backend.login_required" /\ last'.authenticated = "no")
       => /\ session.auth_nonce /= Absent /\ session.auth_opaque /= Absent
          /\ CredentialParameter("nonce") = session.auth_nonce
          /\ CredentialParameter("opaque") = session.auth_opaque]_vars

\* The answer to the first challenge, carrying its nonce and opaque in its
\* session, was authenticated.
C19_Witness ==
    /\ ChallengeAnswered
    /\ last.authenticated = "no" /\ last.outcome = "view"
    /\ CredentialParameter("nonce") = token_hex(1)
    /\ session.auth_nonce = token_hex(1) /\ session.auth_opaque = token_hex(2)

\* ------------------------------------------------------------------------
\* LoginMiddleware
\* ------------------------------------------------------------------------
\* The middleware handled the scope in this step.
MiddlewareRan == last.op = "none" /\ last'.op = "LoginMiddleware"

RECURSIVE OpsOf(_)
OpsOf(log) ==
    IF log = <<>> THEN <<>>
    ELSE IF log[1].op = "create" THEN OpsOf(Tail(log))
    ELSE <<log[1].op>> \o OpsOf(Tail(log))

Count(ops, op) == Cardinality({i \in DOMAIN ops : ops[i] = op})

Before(ops, a, b) ==
    \E i, j \in DOMAIN ops : i < j /\ ops[i] = a /\ ops[j] = b

HttpHandled == last.op = "AlchemicalMiddleware" /\ req.type = "http"

\* C21: an HTTP request gets a session only when its application calls
\* get_session, all calls return that one session, a created session is
\* closed exactly once by the end of the request, and a request that never
\* asked has no create, commit, rollback or close.
C21_OneSessionPerRequest ==
    HttpHandled
    => /\ Count([i \in DOMAIN last.log |-> last.log[i].op], "create")
              = IF req.gets = 0 THEN 0 ELSE 1
       /\ Len(last.got) = req.gets
       /\ \A i, j \in DOMAIN last.got : last.got[i] = last.got[j]
       /\ IF req.gets = 0 THEN last.log = <<>>
          ELSE /\ \A i \in DOMAIN last.log : last.log[i].id = last.got[1].n
               /\ Count(OpsOf(last.log), "close") = 1
               /\ OpsOf(last.log)[Len(OpsOf(last.log))] = "close"

\* C22: when the application raised after it got a session, the session is
\* rolled back, then closed, and the application's exception leaves the
\* middleware; when the application returned and autocommit is on, the
\* session is committed, then closed.
C22_RollbackOrCommitBeforeClose ==
    (HttpHandled /\ req.gets > 0)
    => /\ req.raises /= "return"
          => /\ Before(OpsOf(last.log), "rollback", "close")
             /\ last.exc = req.raises
       /\ (req.raises = "return" /\ backend.autocommit)
          => Before(OpsOf(last.log), "commit", "close")

\* C30: when the application raised, the session was not committed: its
\* operations are rollback, then close, with autocommit on or off.
C30_NoCommitAfterException ==
    (HttpHandled /\ req.gets > 0 /\ req.raises /= "return")
    => OpsOf(last.log) = <<"rollback", "close">>

\* ------------------------------------------------------------------------
\* Config
\* ------------------------------------------------------------------------
\* The key is neither in the environ the Config was given (under the prefix)
\* nor stored in the Config.
MissingKey ==
    /\ (backend.env_prefix \o req.key) \notin DOMAIN environ_of(backend, session)
    /\ req.key \notin DOMAIN backend.store

\* C23: get(key) without a default raises KeyError for a key that is
\* neither in the environ (under the prefix) nor stored; and what get
\* returns from a Config built with an environ of its own is the same
\* whatever the environment of the process holds.
C23_MissingKeyRaisesKeyError ==
    last.op = "Config.get"
    => /\ (MissingKey /\ req.default = None) => last.result = Raise("KeyError")
       /\ backend.environ.custom
          => \A os_environ \in ProcessEnvirons :
                 Config_get(backend, os_environ, req.key, req.cast, req.default) = last.result

\* ------------------------------------------------------------------------
\* _load_current_user, twice and after a failure
\* ------------------------------------------------------------------------
\* _load_current_user is called for the second time in a row on a request.
LoadedAgain ==
    /\ last.op = "_load_current_user" /\ last'.op = "_load_current_user"
    /\ n_ops' = n_ops + 1

\* C24: the second of two _load_current_user calls on a request returns
\* what the first returned and does not call user_loader.
C24_LoadCurrentUserIdempotent ==
    [][LoadedAgain => (last'.user = last.user /\ ~last'.loaded)]_vars

\* The user_loader was awaited in this step and raised.
LoaderRaised ==
    /\ n_ops' = n_ops + 1
    /\ last'.op \in {"_load_current_user", "login_required"}
    /\ last'.loaded /\ loader_raises(lm) /= "none"

\* The request went on as an anonymous one: no exception, no user, and the
\* failure handler called with UNAUTHENTICATED in place of the view.
Anonymous ==
    /\ last'.user = None /\ req'.state_user = None
    /\ last'.op = "_load_current_user" => last'.outcome = "ok"
    /\ last'.op = "login_required"
       => last'.outcome = "failure" /\ last'.reason = "UNAUTHENTICATED"

\* C25 as stated: whatever user_loader raises, the session is unchanged and
\* the request is treated as anonymous.
C25_LoaderExceptionsSwallowed ==
    [][LoaderRaised => (session' = session /\ Anonymous)]_vars

\* C25, amended: the session is unchanged; an exception of a subclass of
\* Exception is swallowed and the request is treated as anonymous, while an
\* exception that is a BaseException only leaves _load_current_user and
\* login_required, with req.state.user as it was and neither view nor
\* failure handler called.
C25_LoaderExceptionSubclassesSwallowed ==
    [][LoaderRaised
       => /\ session' = session
          /\ IF loader_raises(lm) = "Exception" THEN Anonymous
             ELSE /\ last'.outcome = loader_raises(lm)
                  /\ last'.handler = "none"
                  /\ req' = req]_vars

\* A login_required view on a request with a stored id, the loader raising
\* an Exception: refused as unauthenticated.
C25_Witness ==
    /\ lm.user_loader = "raises"
    /\ last.op = "login_required" /\ last.loaded
    /\ last.outcome = "failure" /\ last.reason = "UNAUTHENTICATED"
    /\ session.uid = Str("123") /\ req.state_user = None

\* ------------------------------------------------------------------------
\* Digest users without a password
\* ------------------------------------------------------------------------
\* C26: a DigestAuth request whose username has no password (get_password
\* returns None for it) is not authenticated, whatever response it carries.
C26_UnknownUserNeverAuthenticated ==
    (/\ backend.scheme = "Digest" /\ last.op = "Backend.login_required"
     /\ get_password_callback(backend, CredentialParameter("username")) = None)
    => last.authenticated /= "no"

\* ------------------------------------------------------------------------
\* After logout, on the same request
\* ------------------------------------------------------------------------
\* _load_current_user is called on a request right after a logout on it
\* that returned.
LoadedAfterLogout ==
    /\ last.op = "logout" /\ last.outcome = "ok"
    /\ last'.op = "_load_current_user"

\* C27: a _load_current_user that follows a completed logout on the same
\* request returns None and leaves the session without _user_id, with or
\* without a valid remember-me cookie on the request.
C27_LogoutSticks ==
    [][LoadedAfterLogout => (last'.user = None /\ session'.uid = Absent)]_vars


\* ------------------------------------------------------------------------
\* Role requirements that are not None
\* ------------------------------------------------------------------------
\* A login_required wrapper with a role that is not None met a resolved user.
RoleNotNone ==
    /\ last.op = "login_required"
    /\ last.role /= None
    /\ Truthy(last.user)

\* C28: a view protected by login_required(role=R) with R not None, an
\* empty list and empty nested groups included, is called exactly when
\* _authorize(R, user) is True.
C28_ViewAgreesWithAuthorize ==
    RoleNotNone =>
        ((last.outcome = "view")
            <=> (_authorize(last.role, _role_loader(lm, last.user)) = "True"))
\* ------------------------------------------------------------------------
\* Digest credentials sent again
\* ------------------------------------------------------------------------
\* The step handles a request to a view behind DigestAuth.login_required.
DigestHandled == n_ops' = n_ops + 1 /\ last'.op = "Backend.login_required"

\* The request of the step carries the header the client keeps, with the
\* method it was computed for.
KeptSent == jar /= Absent /\ req'.headers = jar.headers /\ req'.method = jar.method

\* C29: DigestAuth.authenticate only reads the session: the stored nonce
\* and opaque change only with a challenge issued on a 401 or 403 error
\* response, never with a successful authentication, so a header accepted
\* once is accepted again for the same method and URI in the session until
\* a challenge replaces the stored values, and is rejected after that.
C29_AcceptedUntilNextChallenge ==
    [][DigestHandled =>
         /\ session' /= session
            => /\ last'.handlers = 1 /\ last'.status_code \in {401, 403}
               /\ resp'.www_authenticate /= Absent
               /\ session'.auth_nonce = resp'.www_authenticate.nonce
               /\ session'.auth_opaque = resp'.www_authenticate.opaque
         /\ last'.outcome = "view" => session' = session
         /\ (prev.accepted /\ KeptSent)
            => IF prev.replaced
               THEN /\ last'.authenticated = "AuthenticationError"
                    /\ last'.outcome = "error_handler" /\ last'.status_code = 401
               ELSE /\ last'.authenticated = "no"
                    /\ last'.principal = Name("alice")]_vars

\* The header was accepted, a challenge replaced the stored nonce and
\* opaque, and the header sent again ended in the 401 error handler.
C29_Witness ==
    /\ prev.accepted /\ prev.replaced
    /\ last.op = "Backend.login_required"
    /\ jar /= Absent /\ req.headers = jar.headers /\ req.method = jar.method
    /\ last.authenticated = "AuthenticationError"
    /\ last.status_code = 401
    /\ session.auth_nonce /= CredentialParameter("nonce")

\* The header was accepted twice in a row, the session as it was.
C29_AcceptedAgain ==
    /\ prev.accepted /\ ~prev.replaced
    /\ n_ops >= 3
    /\ last.outcome = "view" /\ last.authenticated = "no"
    /\ jar /= Absent /\ req.headers = jar.headers /\ req.method = jar.method
====
